---------------------------- MODULE Spec2Model ----------------------------
(***************************************************************************)
(* A model of the ontologyForm front end: the FHIR converters of           *)
(* Encounter.ts, the EncounterForm component (item lists, submission       *)
(* fan-out, debounced terminology search) and the backend it talks to.     *)
(*                                                                         *)
(* ApiService, the list view-models and the patient detail view are       *)
(* modelled beside the form.                                               *)
(*                                                                         *)
(* Nine specifications share the variables:                                *)
(*   SpecConv    the converters, applied to inputs drawn from bounded sets *)
(*   SpecSearch  the LOINC code search field with its timers and requests  *)
(*   SpecForm    the observation, medication and diagnosis drafts and      *)
(*               lists                                                     *)
(*   Spec        the submission of a filled form and the backend's answers *)
(*   SpecApi     one ApiService call and the fetch that answers it         *)
(*   SpecViews   the patients, doctors and organizations pages             *)
(*   SpecDetail  the patient detail view loading a patient's encounters    *)
(*   SpecAddPatient  the add-patient form of the patients page             *)
(*   SpecUnmount the three code search fields around the form's unmount    *)
(***************************************************************************)
EXTENDS Integers, Sequences, FiniteSets, TLC

(***************************************************************************)
(* Optional values (undefined / null in the source) are sets: {} or {v}.   *)
(***************************************************************************)
None == {}
Some(v) == {v}
TheOne(S) == CHOOSE x \in S : TRUE

(***************************************************************************)
(* Text whose characters matter (codes, search terms) is a sequence of     *)
(* one-character strings.                                                  *)
(***************************************************************************)
UpperOf == [c \in {"a", "b", "e", "h", "i", "m", "p", "r", "v", "x"} |->
              CASE c = "a" -> "A" [] c = "b" -> "B" [] c = "e" -> "E"
                [] c = "h" -> "H" [] c = "i" -> "I" [] c = "m" -> "M"
                [] c = "p" -> "P" [] c = "r" -> "R" [] c = "v" -> "V"
                [] c = "x" -> "X"]
LowerLetters == DOMAIN UpperOf
UpperLetters == {UpperOf[c] : c \in LowerLetters}

\* String.prototype.toLowerCase, one character
LowerChar(c) ==
  IF c \in UpperLetters THEN CHOOSE l \in LowerLetters : UpperOf[l] = c ELSE c

\* String.prototype.toLowerCase
toLowerCase(s) == [i \in 1..Len(s) |-> LowerChar(s[i])]

AMB == <<"A", "M", "B">>
EMER == <<"E", "M", "E", "R">>
IMP == <<"I", "M", "P">>
VR == <<"V", "R">>
HH == <<"H", "H">>

EncounterTypes == {"Ambulatory", "Home", "Emergency", "Hospitalization", "Virtual"}

ActCode == "http://terminology.hl7.org/CodeSystem/v3-ActCode"

(***************************************************************************)
(* Dates.  A Date is an instant (a number); strings are parsed and         *)
(* formatted by table.  datetime-local strings are local time, ISO strings *)
(* are UTC, so the same instant has two different spellings.               *)
(***************************************************************************)
LocalStrings == {"2024-01-01T10:00", "2024-01-02T09:30"}
IsoStrings == {"2024-01-01T13:00:00.000Z", "2024-01-02T12:30:00.000Z"}

\* new Date(string)
NewDate(s) ==
  CASE s = "2024-01-01T10:00" -> 1
    [] s = "2024-01-01T13:00:00.000Z" -> 1
    [] s = "2024-01-02T09:30" -> 2
    [] s = "2024-01-02T12:30:00.000Z" -> 2

\* Date.prototype.toISOString
toISOString(d) ==
  CASE d = 0 -> "2023-12-31T21:00:00.000Z"
    [] d = 1 -> "2024-01-01T13:00:00.000Z"
    [] d = 2 -> "2024-01-02T12:30:00.000Z"

\* new Date(): the current instant, earlier than every date of the model
CurrentDate == 0

----------------------------------------------------------------------------
(***************************************************************************)
(* FHIR converters (Encounter.ts)                                          *)
(***************************************************************************)
createPatientReference(patientId) ==
  [reference |-> "Patient/" \o patientId, type |-> "Patient"]

createEncounterReference(encounterId) ==
  [reference |-> "Encounter/" \o encounterId, type |-> "Encounter"]

createCoding(system, code, display) ==
  [system |-> system, code |-> code, display |-> display]

\* text is None where the caller passes no text
createCodeableConcept(coding, text) == [coding |-> coding, text |-> text]

mapEncounterTypeToFHIRClass_HomeAsAmb(encounterType) ==
  CASE encounterType = "Ambulatory" -> createCoding(ActCode, AMB, "ambulatory")
    [] encounterType = "Emergency" -> createCoding(ActCode, EMER, "emergency")
    [] encounterType = "Hospitalization" -> createCoding(ActCode, IMP, "inpatient encounter")
    [] encounterType = "Virtual" -> createCoding(ActCode, VR, "virtual")
    [] OTHER -> createCoding(ActCode, AMB, "ambulatory")

mapEncounterTypeToFHIRClass(encounterType) ==
  CASE encounterType = "Ambulatory" -> createCoding(ActCode, AMB, "ambulatory")
    [] encounterType = "Emergency" -> createCoding(ActCode, EMER, "emergency")
    [] encounterType = "Hospitalization" -> createCoding(ActCode, IMP, "inpatient encounter")
    [] encounterType = "Virtual" -> createCoding(ActCode, VR, "virtual")
    [] encounterType = "Home" -> createCoding(ActCode, HH, "home health")
    [] OTHER -> createCoding(ActCode, AMB, "ambulatory")

mapFHIRClassToEncounterType_CaseSensitive(fhirClass) ==
  LET code == IF "code" \in DOMAIN fhirClass THEN Some(fhirClass.code) ELSE None
  IN  CASE code = Some(<<"a", "m", "b">>) -> "Ambulatory"
        [] code = Some(<<"e", "m", "e", "r">>) -> "Emergency"
        [] code = Some(<<"i", "m", "p">>) -> "Hospitalization"
        [] code = Some(<<"v", "r">>) -> "Virtual"
        [] code = Some(<<"h", "h">>) -> "Home"
        [] OTHER -> "Ambulatory"

mapFHIRClassToEncounterType_NoInpatient(fhirClass) ==
  LET code == IF "code" \in DOMAIN fhirClass
              THEN Some(toLowerCase(fhirClass.code)) ELSE None
  IN  CASE code = Some(<<"a", "m", "b">>) -> "Ambulatory"
        [] code = Some(<<"e", "m", "e", "r">>) -> "Emergency"
        [] code = Some(<<"v", "r">>) -> "Virtual"
        [] code = Some(<<"h", "h">>) -> "Home"
        [] OTHER -> "Ambulatory"

\* fhirClass.code?.toLowerCase(), then the switch
mapFHIRClassToEncounterType(fhirClass) ==
  LET code == IF "code" \in DOMAIN fhirClass
              THEN Some(toLowerCase(fhirClass.code)) ELSE None
  IN  CASE code = Some(<<"a", "m", "b">>) -> "Ambulatory"
        [] code = Some(<<"e", "m", "e", "r">>) -> "Emergency"
        [] code = Some(<<"i", "m", "p">>) -> "Hospitalization"
        [] code = Some(<<"v", "r">>) -> "Virtual"
        [] code = Some(<<"h", "h">>) -> "Home"
        [] OTHER -> "Ambulatory"

\* The result of a call: a value, or the error it threw.
Returned(v) == [returned |-> v]
Threw(e) == [threw |-> e]
HasReturned(r) == "returned" \in DOMAIN r

\* fromFHIREncounter that starts the observation list with a blank item
fromFHIREncounter_BlankObservation(fhirEncounter) ==
  IF "class" \notin DOMAIN fhirEncounter
  THEN Threw("TypeError")
  ELSE Returned(
    [id |-> IF "id" \in DOMAIN fhirEncounter /\ fhirEncounter.id # ""
            THEN fhirEncounter.id ELSE "unknown",
     encounterType |-> mapFHIRClassToEncounterType(fhirEncounter.class),
     startDate |-> IF "period" \in DOMAIN fhirEncounter
                      /\ "start" \in DOMAIN fhirEncounter.period
                      /\ fhirEncounter.period.start # ""
                   THEN NewDate(fhirEncounter.period.start) ELSE CurrentDate,
     endDate |-> IF "period" \in DOMAIN fhirEncounter
                    /\ "end" \in DOMAIN fhirEncounter.period
                    /\ fhirEncounter.period.end # ""
                 THEN Some(NewDate(fhirEncounter.period.end)) ELSE None,
     observations |-> <<[loincCode |-> <<>>, method |-> "", unitOfMeasure |-> "",
                        value |-> ""]>>,
     medications |-> <<>>,
     diagnoses |-> <<>>,
     allergies |-> <<>>])

\* fromFHIREncounter; reading .code of an absent class is a TypeError
fromFHIREncounter(fhirEncounter) ==
  IF "class" \notin DOMAIN fhirEncounter
  THEN Threw("TypeError")
  ELSE Returned(
    [id |-> IF "id" \in DOMAIN fhirEncounter /\ fhirEncounter.id # ""
            THEN fhirEncounter.id ELSE "unknown",
     encounterType |-> mapFHIRClassToEncounterType(fhirEncounter.class),
     startDate |-> IF "period" \in DOMAIN fhirEncounter
                      /\ "start" \in DOMAIN fhirEncounter.period
                      /\ fhirEncounter.period.start # ""
                   THEN NewDate(fhirEncounter.period.start) ELSE CurrentDate,
     endDate |-> IF "period" \in DOMAIN fhirEncounter
                    /\ "end" \in DOMAIN fhirEncounter.period
                    /\ fhirEncounter.period.end # ""
                 THEN Some(NewDate(fhirEncounter.period.end)) ELSE None,
     observations |-> <<>>,
     medications |-> <<>>,
     diagnoses |-> <<>>,
     allergies |-> <<>>])

\* the period of toFHIREncounter: end is present only when endDate is
Period(clinicalEncounter) ==
  IF clinicalEncounter.endDate = None
  THEN [start |-> toISOString(clinicalEncounter.startDate)]
  ELSE [start |-> toISOString(clinicalEncounter.startDate),
        end |-> toISOString(TheOne(clinicalEncounter.endDate))]

toFHIREncounter(clinicalEncounter, patientId) ==
  [resourceType |-> "Encounter",
   status |-> "finished",
   class |-> mapEncounterTypeToFHIRClass(clinicalEncounter.encounterType),
   subject |-> createPatientReference(patientId),
   period |-> Period(clinicalEncounter)]


\* parseFloat(value.toString()) || 0
parseFloatOrZero(value) ==
  CASE value = "95" -> 95
    [] OTHER -> 0

toFHIRObservation(observation, patientId, encounterId) ==
  LET loincCoding == createCoding("http://loinc.org", observation.loincCode,
                                  observation.loincCode)
      base == [resourceType |-> "Observation",
               status |-> "final",
               code |-> createCodeableConcept(<<loincCoding>>, observation.loincCode),
               subject |-> createPatientReference(patientId),
               valueQuantity |-> [value |-> parseFloatOrZero(observation.value),
                                  unit |-> observation.unitOfMeasure,
                                  system |-> "http://unitsofmeasure.org",
                                  code |-> observation.unitOfMeasure]]
      withEncounter == IF encounterId # ""
                       THEN base @@ [encounter |-> createEncounterReference(encounterId)]
                       ELSE base
  IN  IF observation.method # ""
      THEN withEncounter @@ [method |-> createCodeableConcept(<<>>, observation.method)]
      ELSE withEncounter

toFHIRMedicationRequest(medication, patientId, encounterId) ==
  LET medicationCoding == createCoding("http://snomed.info/sct", medication.loincCode,
                                       medication.loincCode)
      base == [resourceType |-> "MedicationRequest",
               status |-> "active",
               intent |-> "order",
               medicationCodeableConcept |->
                 createCodeableConcept(<<medicationCoding>>, medication.loincCode),
               subject |-> createPatientReference(patientId),
               dosageInstruction |->
                 <<[text |-> medication.value \o " " \o medication.unitOfMeasure,
                    route |-> createCodeableConcept(<<>>, medication.method)]>>]
  IN  IF encounterId # ""
      THEN base @@ [encounter |-> createEncounterReference(encounterId)]
      ELSE base

toFHIRCondition(diagnosis, patientId, encounterId) ==
  LET diagnosisCoding == createCoding("http://snomed.info/sct", diagnosis.diagnosisCode,
                                      diagnosis.description)
      base == [resourceType |-> "Condition",
               clinicalStatus |-> createCodeableConcept(
                 <<createCoding("http://terminology.hl7.org/CodeSystem/condition-clinical",
                                "active", "Active")>>, None),
               verificationStatus |-> createCodeableConcept(
                 <<createCoding("http://terminology.hl7.org/CodeSystem/condition-ver-status",
                                "confirmed", "Confirmed")>>, None),
               code |-> createCodeableConcept(<<diagnosisCoding>>, diagnosis.description),
               subject |-> createPatientReference(patientId),
               onsetDateTime |-> toISOString(CurrentDate)]
  IN  IF encounterId # ""
      THEN base @@ [encounter |-> createEncounterReference(encounterId)]
      ELSE base

\* toFHIRAllergyIntolerance that never attaches the encounter reference
toFHIRAllergyIntolerance_NoEncounter(allergy, patientId, encounterId) ==
  [resourceType |-> "AllergyIntolerance",
   type |-> "allergy",
   category |-> <<"medication">>,
   criticality |-> "high",
   code |-> createCodeableConcept(
     <<createCoding("http://snomed.info/sct", "419199007", allergy.description)>>,
     allergy.description),
   patient |-> createPatientReference(patientId)]

toFHIRAllergyIntolerance(allergy, patientId, encounterId) ==
  LET allergyCoding == createCoding("http://snomed.info/sct", "419199007",
                                    allergy.description)
      base == [resourceType |-> "AllergyIntolerance",
               clinicalStatus |-> createCodeableConcept(
                 <<createCoding(
                     "http://terminology.hl7.org/CodeSystem/allergyintolerance-clinical",
                     "active", "Active")>>, None),
               verificationStatus |-> createCodeableConcept(
                 <<createCoding(
                     "http://terminology.hl7.org/CodeSystem/allergyintolerance-verification",
                     "confirmed", "Confirmed")>>, None),
               type |-> "allergy",
               category |-> <<"medication">>,
               criticality |-> "high",
               code |-> createCodeableConcept(<<allergyCoding>>, allergy.description),
               patient |-> createPatientReference(patientId),
               reaction |->
                 <<[manifestation |->
                      <<createCodeableConcept(
                          <<createCoding("http://snomed.info/sct", "419199007",
                                         "Allergic reaction")>>, None)>>,
                    severity |-> "moderate"]>>]
  IN  IF encounterId # ""
      THEN base @@ [encounter |-> createEncounterReference(encounterId)]
      ELSE base

----------------------------------------------------------------------------
(***************************************************************************)
(* Bounds of the model                                                     *)
(***************************************************************************)
MaxItems == 2        \* items per list of the form
MaxSubmits == 2      \* submissions started
MaxInFlight == 2     \* terminology requests awaiting their response
MaxBlurTimers == 1   \* blur timers pending at once
TickMs == 50         \* the time one Tick step lets pass
MaxEntities == 3     \* doctors or organizations in a list
MaxFetched == 2      \* encounters, and observations, a backend returns for a patient

DebounceMs == 500    \* setTimeout delay of the search handlers
BlurDelayMs == 150   \* setTimeout delay of the blur handlers
MinTermLength == 2   \* shortest term that is searched

VARIABLES
  \* converter harness: the values a caller holds
  convClinical, convPatient, convFhir, convDomain,
  \* EncounterForm state (useState)
  encounterType, startDate, endDate,
  observations, newObservation, observationNames, newObservationName,
  medications, newMedication, medicationNames, newMedicationName,
  diagnoses, newDiagnosis, diagnosisNames, newDiagnosisName,
  allergies, newAllergy,
  errors, isSubmitting, submitError, submitSuccess,
  \* code search state, one entry per search field
  searchResults, isSearching, showResults, searchError, searchTimeoutRef,
  \* the running handleSubmit call: where it waits and what its closure holds
  pc, closure,
  \* the environment: the component's lifetime, browser timers, the backend
  \* and the terminology endpoint, the onSubmit callback of the parent
  mounted, timers, network, submitCount, onSubmitCalls,
  searchRequests,
  \* what an observer of a search field has seen since its last keystroke
  lastTyped, sinceKey, sentSinceKey, searchRan, interruptedSinceKey,
  \* a caller of ApiService: the method it called with the number of fetch
  \* calls made for it, what fetch gave, what the method gave
  apiCall, apiFetched, apiResult,
  \* the list page that is mounted: its route, the state of its view-model,
  \* the backend requests sent from it that are unanswered, whether the
  \* timer of its mock load is pending, and for the loadPatients call that
  \* settled last what getPatients gave it and how its promise settled
  page, vm, vmRequests, vmTimer, loadPromise,
  \* the add-patient form of the patients page (currentView, errors,
  \* newPatient) and the status, or the error, that the createPatient call
  \* answered last gave its handler
  addPatient, createAnswer,
  \* the patient detail view: what the five list endpoints returned and the
  \* encounters it displays
  detailFetched, detailEncounters

convVars == <<convClinical, convPatient, convFhir, convDomain>>
basicVars == <<encounterType, startDate, endDate>>
obsVars == <<observations, newObservation, observationNames, newObservationName>>
medVars == <<medications, newMedication, medicationNames, newMedicationName>>
diagVars == <<diagnoses, newDiagnosis, diagnosisNames, newDiagnosisName>>
allergyVars == <<allergies, newAllergy>>
statusVars == <<errors, isSubmitting, submitError, submitSuccess>>
searchVars == <<searchResults, isSearching, showResults, searchError, searchTimeoutRef>>
submitVars == <<pc, closure, network, submitCount, onSubmitCalls>>
searchEnvVars == <<timers, searchRequests, lastTyped, sinceKey, sentSinceKey,
                   searchRan, interruptedSinceKey>>
formVars == <<basicVars, obsVars, medVars, diagVars, allergyVars, statusVars>>
apiVars == <<apiCall, apiFetched, apiResult>>
viewVars == <<page, vm, vmRequests, vmTimer, loadPromise, addPatient, createAnswer>>
detailVars == <<detailFetched, detailEncounters>>
appVars == <<apiVars, viewVars, detailVars>>
vars == <<convVars, formVars, searchVars, submitVars, mounted, searchEnvVars, appVars>>

Fields == {"loinc", "medication", "diagnosis"}

EmptyObservation == [loincCode |-> <<>>, method |-> "", unitOfMeasure |-> "", value |-> ""]
EmptyDiagnosis == [description |-> "", diagnosisCode |-> <<>>, status |-> ""]
EmptyAllergy == [description |-> "", active |-> TRUE]

\* the props of the component
patientId == "p1"


----------------------------------------------------------------------------
(***************************************************************************)
(* Inputs of the user and of the terminology endpoint                      *)
(***************************************************************************)
MethodInputs == {"", "Blood test"}
UnitInputs == {"", "mg/dL"}
ValueInputs == {"", "95"}

\* what the endpoint can return for a term: items {ui, name}
LoincItem == [ui |-> <<"2", "3">>, name |-> <<"G", "l", ":", "S">>]
SnomedItem == [ui |-> <<"3", "8">>, name |-> <<"A", "s", " ", "(", "p", ")">>]

\* name.split(sep)[0]
SplitFirst(name, sep) ==
  LET hits == {i \in 1..Len(name) : name[i] = sep}
  IN  IF hits = {} THEN name
      ELSE SubSeq(name, 1, (CHOOSE i \in hits : \A j \in hits : i <= j) - 1)

RECURSIVE TrimStart(_)
TrimStart(s) == IF s # <<>> /\ Head(s) = " " THEN TrimStart(Tail(s)) ELSE s

RECURSIVE TrimEnd(_)
TrimEnd(s) ==
  IF s # <<>> /\ s[Len(s)] = " " THEN TrimEnd(SubSeq(s, 1, Len(s) - 1)) ELSE s

\* String.prototype.trim
Trim(s) == TrimEnd(TrimStart(s))

\* the item mapping of LoincService.searchLoincCodes
LoincCodeOf(item) ==
  [code |-> item.ui, displayName |-> item.name, longCommonName |-> item.name,
   shortName |-> SplitFirst(item.name, ":")]

\* the item mapping of SnomedService.searchSnomedCodes
SnomedCodeOf(item) ==
  [code |-> item.ui, displayName |-> item.name,
   shortName |-> Trim(SplitFirst(item.name, "("))]

ItemsOf(f) == IF f = "loinc" THEN {LoincItem} ELSE {SnomedItem}
CodeOf(f, item) == IF f = "loinc" THEN LoincCodeOf(item) ELSE SnomedCodeOf(item)

----------------------------------------------------------------------------
(***************************************************************************)
(* EncounterForm: the item lists and their drafts                          *)
(***************************************************************************)
\* Array.prototype.filter((_, i) => i !== index), indices from 1
RemoveAt(list, index) ==
  [i \in 1..(Len(list) - 1) |-> IF i < index THEN list[i] ELSE list[i + 1]]

OthersUnchanged(changed) ==
  /\ UNCHANGED <<convVars, mounted, appVars>>
  /\ IF "basic" \in changed THEN TRUE ELSE UNCHANGED basicVars
  /\ IF "obs" \in changed THEN TRUE ELSE UNCHANGED obsVars
  /\ IF "med" \in changed THEN TRUE ELSE UNCHANGED medVars
  /\ IF "diag" \in changed THEN TRUE ELSE UNCHANGED diagVars
  /\ IF "allergy" \in changed THEN TRUE ELSE UNCHANGED allergyVars
  /\ IF "status" \in changed THEN TRUE ELSE UNCHANGED statusVars
  /\ IF "search" \in changed THEN TRUE ELSE UNCHANGED searchVars
  /\ IF "submit" \in changed THEN TRUE ELSE UNCHANGED submitVars
  /\ IF "searchEnv" \in changed THEN TRUE ELSE UNCHANGED searchEnvVars

\* onChange of the method, unit and value inputs of the observation draft
setNewObservation(key, v) ==
  /\ newObservation' = [newObservation EXCEPT ![key] = v]
  /\ UNCHANGED <<observations, observationNames, newObservationName>>
  /\ OthersUnchanged({"obs"})

setNewMedication(key, v) ==
  /\ newMedication' = [newMedication EXCEPT ![key] = v]
  /\ UNCHANGED <<medications, medicationNames, newMedicationName>>
  /\ OthersUnchanged({"med"})

\* addObservation that does not test the value of the draft
addObservation_IgnoresValue ==
  /\ IF newObservation.loincCode # <<>> /\ newObservation.method # ""
        /\ newObservation.unitOfMeasure # ""
     THEN /\ observations' = Append(observations, newObservation)
          /\ observationNames' = Append(observationNames, newObservationName)
          /\ newObservation' = EmptyObservation
          /\ newObservationName' = <<>>
     ELSE UNCHANGED obsVars
  /\ OthersUnchanged({"obs"})

addObservation ==
  /\ IF newObservation.loincCode # <<>> /\ newObservation.method # ""
        /\ newObservation.unitOfMeasure # "" /\ newObservation.value # ""
     THEN /\ observations' = Append(observations, newObservation)
          /\ observationNames' = Append(observationNames, newObservationName)
          /\ newObservation' = EmptyObservation
          /\ newObservationName' = <<>>
     ELSE UNCHANGED obsVars
  /\ OthersUnchanged({"obs"})

\* removeObservation that leaves the names list as it is
removeObservation_KeepsName(index) ==
  /\ observations' = RemoveAt(observations, index)
  /\ UNCHANGED <<observationNames, newObservation, newObservationName>>
  /\ OthersUnchanged({"obs"})

removeObservation(index) ==
  /\ observations' = RemoveAt(observations, index)
  /\ observationNames' = RemoveAt(observationNames, index)
  /\ UNCHANGED <<newObservation, newObservationName>>
  /\ OthersUnchanged({"obs"})

addMedication ==
  /\ IF newMedication.loincCode # <<>> /\ newMedication.method # ""
        /\ newMedication.unitOfMeasure # "" /\ newMedication.value # ""
     THEN /\ medications' = Append(medications, newMedication)
          /\ medicationNames' = Append(medicationNames, newMedicationName)
          /\ newMedication' = EmptyObservation
          /\ newMedicationName' = <<>>
     ELSE UNCHANGED medVars
  /\ OthersUnchanged({"med"})

removeMedication(index) ==
  /\ medications' = RemoveAt(medications, index)
  /\ medicationNames' = RemoveAt(medicationNames, index)
  /\ UNCHANGED <<newMedication, newMedicationName>>
  /\ OthersUnchanged({"med"})

removeDiagnosis(index) ==
  /\ diagnoses' = RemoveAt(diagnoses, index)
  /\ diagnosisNames' = RemoveAt(diagnosisNames, index)
  /\ UNCHANGED <<newDiagnosis, newDiagnosisName>>
  /\ OthersUnchanged({"diag"})

removeAllergy(index) ==
  /\ allergies' = RemoveAt(allergies, index)
  /\ UNCHANGED newAllergy
  /\ OthersUnchanged({"allergy"})

setNewDiagnosis(key, v) ==
  /\ newDiagnosis' = [newDiagnosis EXCEPT ![key] = v]
  /\ UNCHANGED <<diagnoses, diagnosisNames, newDiagnosisName>>
  /\ OthersUnchanged({"diag"})

addDiagnosis ==
  /\ IF newDiagnosis.description # "" /\ newDiagnosis.diagnosisCode # <<>>
        /\ newDiagnosis.status # ""
     THEN /\ diagnoses' = Append(diagnoses, newDiagnosis)
          /\ diagnosisNames' = Append(diagnosisNames, newDiagnosisName)
          /\ newDiagnosis' = EmptyDiagnosis
          /\ newDiagnosisName' = <<>>
     ELSE UNCHANGED diagVars
  /\ OthersUnchanged({"diag"})

setNewAllergy(key, v) ==
  /\ newAllergy' = [newAllergy EXCEPT ![key] = v]
  /\ UNCHANGED allergies
  /\ OthersUnchanged({"allergy"})

addAllergy ==
  /\ IF newAllergy.description # ""
     THEN /\ allergies' = Append(allergies, newAllergy)
          /\ newAllergy' = EmptyAllergy
     ELSE UNCHANGED allergyVars
  /\ OthersUnchanged({"allergy"})

\* onChange of the encounter type select and of the date inputs
setEncounterType(t) ==
  /\ encounterType' = t
  /\ UNCHANGED <<startDate, endDate>>
  /\ OthersUnchanged({"basic"})

setStartDate(s) ==
  /\ startDate' = s
  /\ UNCHANGED <<encounterType, endDate>>
  /\ OthersUnchanged({"basic"})

setEndDate(s) ==
  /\ endDate' = s
  /\ UNCHANGED <<encounterType, startDate>>
  /\ OthersUnchanged({"basic"})


----------------------------------------------------------------------------
(***************************************************************************)
(* EncounterForm: code search fields.  A browser timer is a record          *)
(* {id, kind, field, term, remaining}; a ref holds None or Some(id).        *)
(***************************************************************************)
\* setTimeout's return value.  Ids of timers that are neither pending nor
\* held in a ref can no longer be observed, so the smallest such id stands
\* for the fresh one the browser hands out.
FreshTimerId ==
  LET used == {t.id : t \in timers} \cup UNION {searchTimeoutRef[f] : f \in Fields}
  IN  CHOOSE i \in 1..(Cardinality(used) + 1) :
        i \notin used /\ \A j \in 1..(i - 1) : j \in used

\* if (ref.current) clearTimeout(ref.current)
clearTimeout(ts, ref) == IF ref = None THEN ts ELSE {t \in ts : t.id \notin ref}

\* handleSearch without the clearTimeout before the length test
handleSearch_ShortKeepsTimer(f, searchTerm) ==
  IF Len(searchTerm) < MinTermLength
  THEN /\ timers' = timers
       /\ searchResults' = [searchResults EXCEPT ![f] = <<>>]
       /\ showResults' = [showResults EXCEPT ![f] = FALSE]
       /\ UNCHANGED <<isSearching, searchError, searchTimeoutRef>>
  ELSE /\ timers' = clearTimeout(timers, searchTimeoutRef[f]) \cup
                      {[id |-> FreshTimerId, kind |-> "search", field |-> f,
                        term |-> searchTerm, remaining |-> DebounceMs]}
       /\ isSearching' = [isSearching EXCEPT ![f] = TRUE]
       /\ searchError' = [searchError EXCEPT ![f] = None]
       /\ searchTimeoutRef' = [searchTimeoutRef EXCEPT ![f] = Some(FreshTimerId)]
       /\ UNCHANGED <<searchResults, showResults>>

\* handleSearch that leaves a pending timer in place instead of replacing it,
\* so the search runs for the first term of a burst
handleSearch_KeepsPendingTimer(f, searchTerm) ==
  IF Len(searchTerm) < MinTermLength
  THEN /\ timers' = clearTimeout(timers, searchTimeoutRef[f])
       /\ searchResults' = [searchResults EXCEPT ![f] = <<>>]
       /\ showResults' = [showResults EXCEPT ![f] = FALSE]
       /\ UNCHANGED <<isSearching, searchError, searchTimeoutRef>>
  ELSE IF \E t \in timers : t.kind = "search" /\ t.field = f
       THEN /\ isSearching' = [isSearching EXCEPT ![f] = TRUE]
            /\ searchError' = [searchError EXCEPT ![f] = None]
            /\ UNCHANGED <<timers, searchTimeoutRef, searchResults, showResults>>
       ELSE /\ timers' = timers \cup
                           {[id |-> FreshTimerId, kind |-> "search", field |-> f,
                             term |-> searchTerm, remaining |-> DebounceMs]}
            /\ isSearching' = [isSearching EXCEPT ![f] = TRUE]
            /\ searchError' = [searchError EXCEPT ![f] = None]
            /\ searchTimeoutRef' = [searchTimeoutRef EXCEPT ![f] = Some(FreshTimerId)]
            /\ UNCHANGED <<searchResults, showResults>>

\* handleSearch without the clearTimeout of the timer held in the ref
handleSearch_NoClear(f, searchTerm) ==
  IF Len(searchTerm) < MinTermLength
  THEN /\ timers' = timers
       /\ searchResults' = [searchResults EXCEPT ![f] = <<>>]
       /\ showResults' = [showResults EXCEPT ![f] = FALSE]
       /\ UNCHANGED <<isSearching, searchError, searchTimeoutRef>>
  ELSE /\ timers' = timers \cup
                      {[id |-> FreshTimerId, kind |-> "search", field |-> f,
                        term |-> searchTerm, remaining |-> DebounceMs]}
       /\ isSearching' = [isSearching EXCEPT ![f] = TRUE]
       /\ searchError' = [searchError EXCEPT ![f] = None]
       /\ searchTimeoutRef' = [searchTimeoutRef EXCEPT ![f] = Some(FreshTimerId)]
       /\ UNCHANGED <<searchResults, showResults>>

\* handleLoincSearch / handleMedicationSearch / handleDiagnosisSearch
handleSearch(f, searchTerm) ==
  IF Len(searchTerm) < MinTermLength
  THEN /\ timers' = clearTimeout(timers, searchTimeoutRef[f])
       /\ searchResults' = [searchResults EXCEPT ![f] = <<>>]
       /\ showResults' = [showResults EXCEPT ![f] = FALSE]
       /\ UNCHANGED <<isSearching, searchError, searchTimeoutRef>>
  ELSE /\ timers' = clearTimeout(timers, searchTimeoutRef[f]) \cup
                      {[id |-> FreshTimerId, kind |-> "search", field |-> f,
                        term |-> searchTerm, remaining |-> DebounceMs]}
       /\ isSearching' = [isSearching EXCEPT ![f] = TRUE]
       /\ searchError' = [searchError EXCEPT ![f] = None]
       /\ searchTimeoutRef' = [searchTimeoutRef EXCEPT ![f] = Some(FreshTimerId)]
       /\ UNCHANGED <<searchResults, showResults>>

\* the observer's record of a keystroke in field f
NoteKeystroke(f, value) ==
  /\ lastTyped' = [lastTyped EXCEPT ![f] = Some(value)]
  /\ sinceKey' = [sinceKey EXCEPT ![f] = 0]
  /\ sentSinceKey' = [sentSinceKey EXCEPT ![f] = <<>>]
  /\ searchRan' = [searchRan EXCEPT ![f] = FALSE]
  /\ interruptedSinceKey' = [interruptedSinceKey EXCEPT ![f] = FALSE]
  /\ UNCHANGED searchRequests

\* the observer's record of a blur timeout, a selection or an unmount that
\* happens before the search scheduled by the last keystroke has run
NoteInterrupt(fs) ==
  /\ interruptedSinceKey' =
       [f \in Fields |-> interruptedSinceKey[f] \/ (f \in fs /\ ~searchRan[f])]
  /\ UNCHANGED <<searchRequests, lastTyped, sinceKey, sentSinceKey, searchRan>>

handleLoincInputChange(value) ==
  /\ mounted
  /\ newObservation' = [newObservation EXCEPT !.loincCode = value]
  /\ UNCHANGED <<observations, observationNames, newObservationName>>
  /\ handleSearch("loinc", value)
  /\ NoteKeystroke("loinc", value)
  /\ OthersUnchanged({"obs", "search", "searchEnv"})

handleMedicationInputChange(value) ==
  /\ mounted
  /\ newMedication' = [newMedication EXCEPT !.loincCode = value]
  /\ UNCHANGED <<medications, medicationNames, newMedicationName>>
  /\ handleSearch("medication", value)
  /\ NoteKeystroke("medication", value)
  /\ OthersUnchanged({"med", "search", "searchEnv"})

handleDiagnosisInputChange(value) ==
  /\ mounted
  /\ newDiagnosis' = [newDiagnosis EXCEPT !.diagnosisCode = value]
  /\ UNCHANGED <<diagnoses, diagnosisNames, newDiagnosisName>>
  /\ handleSearch("diagnosis", value)
  /\ NoteKeystroke("diagnosis", value)
  /\ OthersUnchanged({"diag", "search", "searchEnv"})

\* selectSearch that nulls the ref without clearing the timer it holds
selectSearch_KeepsTimer(f) ==
  /\ timers' = timers
  /\ searchTimeoutRef' = [searchTimeoutRef EXCEPT ![f] = None]
  /\ isSearching' = [isSearching EXCEPT ![f] = FALSE]
  /\ showResults' = [showResults EXCEPT ![f] = FALSE]
  /\ searchResults' = [searchResults EXCEPT ![f] = <<>>]
  /\ UNCHANGED searchError
  /\ NoteInterrupt({f})

\* the part of handle*Select that is the same for the three fields
selectSearch(f) ==
  /\ timers' = clearTimeout(timers, searchTimeoutRef[f])
  /\ searchTimeoutRef' = [searchTimeoutRef EXCEPT ![f] = None]
  /\ isSearching' = [isSearching EXCEPT ![f] = FALSE]
  /\ showResults' = [showResults EXCEPT ![f] = FALSE]
  /\ searchResults' = [searchResults EXCEPT ![f] = <<>>]
  /\ UNCHANGED searchError
  /\ NoteInterrupt({f})

\* a result can be clicked while the result list is rendered
Rendered(f) ==
  IF mounted /\ showResults[f]
  THEN {searchResults[f][i] : i \in 1..Len(searchResults[f])} ELSE {}

handleLoincSelect(loincCode) ==
  /\ loincCode \in Rendered("loinc")
  /\ selectSearch("loinc")
  /\ newObservation' = [newObservation EXCEPT !.loincCode = loincCode.code]
  /\ newObservationName' = loincCode.shortName
  /\ UNCHANGED <<observations, observationNames>>
  /\ OthersUnchanged({"obs", "search", "searchEnv"})

handleMedicationSelect(snomedCode) ==
  /\ snomedCode \in Rendered("medication")
  /\ selectSearch("medication")
  /\ newMedication' = [newMedication EXCEPT !.loincCode = snomedCode.code]
  /\ newMedicationName' = snomedCode.shortName
  /\ UNCHANGED <<medications, medicationNames>>
  /\ OthersUnchanged({"med", "search", "searchEnv"})

handleDiagnosisSelect(snomedCode) ==
  /\ snomedCode \in Rendered("diagnosis")
  /\ selectSearch("diagnosis")
  /\ newDiagnosis' = [newDiagnosis EXCEPT !.diagnosisCode = snomedCode.code]
  /\ newDiagnosisName' = snomedCode.shortName
  /\ UNCHANGED <<diagnoses, diagnosisNames>>
  /\ OthersUnchanged({"diag", "search", "searchEnv"})


\* setState of an unmounted component is ignored
SetIfMounted(var, f, v) == IF mounted THEN [var EXCEPT ![f] = v] ELSE var

\* Service.search*Codes up to its fetch: a term that is too short once
\* trimmed resolves to [] without a request
NeedsFetch(searchTerm) == Len(Trim(searchTerm)) >= MinTermLength

\* the callback of the debounce timer t runs: the service is called and, if
\* it returns without a request, so does the rest of the callback
SearchTimeout(t) ==
  /\ t \in timers /\ t.kind = "search" /\ t.remaining = 0
  /\ timers' = timers \ {t}
  /\ searchRan' = [searchRan EXCEPT ![t.field] = TRUE]
  /\ IF NeedsFetch(t.term)
     THEN /\ searchRequests' =
               Append(searchRequests, [field |-> t.field, term |-> Trim(t.term)])
          /\ sentSinceKey' =
               [sentSinceKey EXCEPT ![t.field] = Append(@, Trim(t.term))]
          /\ UNCHANGED searchVars
     ELSE /\ searchResults' = SetIfMounted(searchResults, t.field, <<>>)
          /\ showResults' = SetIfMounted(showResults, t.field, TRUE)
          /\ isSearching' = SetIfMounted(isSearching, t.field, FALSE)
          /\ UNCHANGED <<searchError, searchTimeoutRef, searchRequests, sentSinceKey>>
  /\ UNCHANGED <<lastTyped, sinceKey, interruptedSinceKey>>
  /\ OthersUnchanged({"search", "searchEnv"})

\* SearchResponse with a guard that drops the answer to a request whose term
\* is no longer the one in the field
SearchResponse_DropsStale(i, items) ==
  /\ i \in 1..Len(searchRequests)
  /\ LET f == searchRequests[i].field
         results == [k \in 1..Len(items) |-> CodeOf(f, items[k])]
         stale == lastTyped[f] # Some(searchRequests[i].term)
     IN  /\ searchResults' = IF stale THEN searchResults
                                       ELSE SetIfMounted(searchResults, f, results)
         /\ showResults' = IF stale THEN showResults
                                     ELSE SetIfMounted(showResults, f, TRUE)
         /\ isSearching' = IF stale THEN isSearching
                                     ELSE SetIfMounted(isSearching, f, FALSE)
  /\ searchRequests' = RemoveAt(searchRequests, i)
  /\ UNCHANGED <<searchError, searchTimeoutRef, timers, lastTyped, sinceKey,
                 sentSinceKey, searchRan, interruptedSinceKey>>
  /\ OthersUnchanged({"search", "searchEnv"})

\* the terminology endpoint answers request i: items on success; a failed
\* request is caught in the service, which then returns []
SearchResponse(i, items) ==
  /\ i \in 1..Len(searchRequests)
  /\ LET f == searchRequests[i].field
         results == [k \in 1..Len(items) |-> CodeOf(f, items[k])]
     IN  /\ searchResults' = SetIfMounted(searchResults, f, results)
         /\ showResults' = SetIfMounted(showResults, f, TRUE)
         /\ isSearching' = SetIfMounted(isSearching, f, FALSE)
  /\ searchRequests' = RemoveAt(searchRequests, i)
  /\ UNCHANGED <<searchError, searchTimeoutRef, timers, lastTyped, sinceKey,
                 sentSinceKey, searchRan, interruptedSinceKey>>
  /\ OthersUnchanged({"search", "searchEnv"})

\* handleLoincInputBlur / handleMedicationInputBlur / handleDiagnosisInputBlur
handleInputBlur(f) ==
  /\ mounted
  /\ Cardinality({t \in timers : t.kind = "blur"}) < MaxBlurTimers
  /\ timers' = timers \cup {[id |-> FreshTimerId, kind |-> "blur", field |-> f,
                             term |-> <<>>, remaining |-> BlurDelayMs]}
  /\ UNCHANGED <<searchRequests, lastTyped, sinceKey, sentSinceKey, searchRan,
                 interruptedSinceKey>>
  /\ OthersUnchanged({"searchEnv"})

\* the callback of the blur timer t runs
BlurTimeout(t) ==
  /\ t \in timers /\ t.kind = "blur" /\ t.remaining = 0
  /\ timers' = clearTimeout(timers \ {t}, searchTimeoutRef[t.field])
  /\ searchTimeoutRef' = [searchTimeoutRef EXCEPT ![t.field] = None]
  /\ isSearching' = SetIfMounted(isSearching, t.field, FALSE)
  /\ showResults' = SetIfMounted(showResults, t.field, FALSE)
  /\ UNCHANGED <<searchResults, searchError>>
  /\ NoteInterrupt({t.field})
  /\ OthersUnchanged({"search", "searchEnv"})

\* the component is unmounted: the cleanup of the click-outside effect runs,
\* which clears the LOINC timer only
Unmount ==
  /\ mounted
  /\ mounted' = FALSE
  /\ timers' = clearTimeout(timers, searchTimeoutRef["loinc"])
  /\ NoteInterrupt(Fields)
  /\ UNCHANGED <<convVars, formVars, searchVars, submitVars, appVars>>

Min(a, b) == IF a < b THEN a ELSE b
Max(a, b) == IF a < b THEN b ELSE a

\* TickMs pass; a timer that is due runs before more time passes
Tick ==
  /\ \/ timers # {}
     \/ \E f \in Fields : lastTyped[f] # None /\ sinceKey[f] < DebounceMs
  /\ \A t \in timers : t.remaining > 0
  /\ timers' = {[t EXCEPT !.remaining = Max(0, @ - TickMs)] : t \in timers}
  /\ sinceKey' = [f \in Fields |-> IF lastTyped[f] = None THEN 0
                                     ELSE Min(DebounceMs, sinceKey[f] + TickMs)]
  /\ UNCHANGED <<searchRequests, lastTyped, sentSinceKey, searchRan,
                 interruptedSinceKey>>
  /\ OthersUnchanged({"searchEnv"})


----------------------------------------------------------------------------
(***************************************************************************)
(* EncounterForm: submission.  network is the log of the requests sent to  *)
(* the backend, each {sub, kind, body, state, id}; a request answered 2xx  *)
(* has created its resource there, and id is the id the answer to          *)
(* createEncounter carries, if any.                                        *)
(***************************************************************************)
isFormReady ==
  /\ encounterType # "" /\ startDate # ""
  /\ ~(observations = <<>> /\ medications = <<>> /\ diagnoses = <<>> /\ allergies = <<>>)

\* validateForm without the test of the four lists
validateForm_NoSectionCheck ==
  (IF encounterType = "" THEN <<"El tipo de encuentro es requerido">> ELSE <<>>)
  \o (IF startDate = "" THEN <<"La fecha de inicio es requerida">> ELSE <<>>)

\* the newErrors list of validateForm
validateForm ==
  (IF encounterType = "" THEN <<"El tipo de encuentro es requerido">> ELSE <<>>)
  \o (IF startDate = "" THEN <<"La fecha de inicio es requerida">> ELSE <<>>)
  \o (IF observations = <<>> /\ medications = <<>> /\ diagnoses = <<>> /\ allergies = <<>>
      THEN <<"Debe completar al menos una seccion (Observaciones, Medicamentos, Diagnosticos o Alergias)">>
      ELSE <<>>)

Request(sub, kind, body) ==
  [sub |-> sub, kind |-> kind, body |-> body, state |-> "pending", id |-> None]

ChildKinds == {"createObservation", "createMedicationRequest", "createCondition",
               "createAllergyIntolerance"}

\* names[index] || code
NameOrCode(names, index, code) == IF names[index] # <<>> THEN names[index] ELSE code

\* the requests handleSubmit sends once the encounter has its id, in the order of
\* the four maps
ChildRequests(c, encounterId) ==
  [i \in 1..Len(c.observations) |->
     Request(c.sub, "createObservation",
       toFHIRObservation(
         [c.observations[i] EXCEPT !.loincCode =
            NameOrCode(c.observationNames, i, c.observations[i].loincCode)],
         patientId, encounterId))]
  \o
  [i \in 1..Len(c.medications) |->
     Request(c.sub, "createMedicationRequest",
       toFHIRMedicationRequest(
         [c.medications[i] EXCEPT !.loincCode =
            NameOrCode(c.medicationNames, i, c.medications[i].loincCode)],
         patientId, encounterId))]
  \o
  [i \in 1..Len(c.diagnoses) |->
     Request(c.sub, "createCondition",
       toFHIRCondition(
         [c.diagnoses[i] EXCEPT !.diagnosisCode =
            NameOrCode(c.diagnosisNames, i, c.diagnoses[i].diagnosisCode)],
         patientId, encounterId))]
  \o
  [i \in 1..Len(c.allergies) |->
     Request(c.sub, "createAllergyIntolerance",
       toFHIRAllergyIntolerance(c.allergies[i], patientId, encounterId))]

\* the clinicalEncounter object of handleSubmit
ClinicalEncounter(c) ==
  [encounterType |-> c.encounterType,
   startDate |-> NewDate(c.startDate),
   endDate |-> IF c.endDate # "" THEN Some(NewDate(c.endDate)) ELSE None,
   observations |-> c.observations,
   medications |-> c.medications,
   diagnoses |-> c.diagnoses,
   allergies |-> c.allergies]

NoClosure == [sub |-> 0]

\* a catch block that logs the error and does not report it
SubmitFailed_NotReported(message) ==
  /\ isSubmitting' = FALSE
  /\ UNCHANGED <<errors, submitSuccess, submitError>>
  /\ pc' = "idle"
  /\ closure' = NoClosure

\* catch and finally of handleSubmit
SubmitFailed(message) ==
  /\ submitError' = Some(message)
  /\ isSubmitting' = FALSE
  /\ UNCHANGED <<errors, submitSuccess>>
  /\ pc' = "idle"
  /\ closure' = NoClosure

\* the end of the try block of handleSubmit, and its finally; the callback of
\* the parent returns or throws
SubmitSucceeded(c, callbackThrows) ==
  /\ submitSuccess' = TRUE
  /\ onSubmitCalls' = Append(onSubmitCalls, [sub |-> c.sub, encounter |-> ClinicalEncounter(c)])
  /\ submitError' = IF callbackThrows THEN Some("callback error") ELSE submitError
  /\ isSubmitting' = FALSE
  /\ UNCHANGED errors
  /\ pc' = "idle"
  /\ closure' = NoClosure

\* handleSubmit, the onSubmit handler of the form, up to its first await.  It
\* runs on any form, ready or not; the submit button is disabled while a
\* submission runs, so one submission runs at a time.
handleSubmit ==
  /\ mounted /\ ~isSubmitting
  /\ submitCount < MaxSubmits
  /\ errors' = validateForm
  /\ IF validateForm # <<>>
     THEN UNCHANGED <<isSubmitting, submitError, submitSuccess, submitVars>>
     ELSE LET c == [sub |-> submitCount + 1,
                    encounterType |-> encounterType,
                    startDate |-> startDate, endDate |-> endDate,
                    observations |-> observations,
                    observationNames |-> observationNames,
                    medications |-> medications,
                    medicationNames |-> medicationNames,
                    diagnoses |-> diagnoses,
                    diagnosisNames |-> diagnosisNames,
                    allergies |-> allergies]
          IN  /\ isSubmitting' = TRUE
              /\ submitError' = None
              /\ submitSuccess' = FALSE
              /\ closure' = c
              /\ submitCount' = submitCount + 1
              /\ network' = Append(network,
                   Request(c.sub, "createEncounter",
                           toFHIREncounter(ClinicalEncounter(c), patientId)))
              /\ pc' = "awaitEncounter"
              /\ UNCHANGED onSubmitCalls
  /\ OthersUnchanged({"status", "submit"})

\* the id the backend gives the encounter of submission sub
EncounterIdOf(sub) == IF sub = 1 THEN "e1" ELSE IF sub = 2 THEN "e2" ELSE "e3"

EncounterOutcomes == {"created", "createdWithoutId", "emptyEnvelope", "httpError"}

\* handleSubmit without the test of the encounter id: the children are sent
\* whatever id the answer carries
EncounterResponse_NoIdCheck(i, outcome) ==
  /\ pc = "awaitEncounter"
  /\ i \in 1..Len(network)
  /\ network[i].kind = "createEncounter" /\ network[i].state = "pending"
  /\ LET answered == [network EXCEPT
                        ![i].state = IF outcome = "httpError" THEN "failed" ELSE "ok",
                        ![i].id = IF outcome = "created"
                                  THEN Some(EncounterIdOf(network[i].sub)) ELSE None]
         children == ChildRequests(closure, IF outcome = "created"
                                             THEN EncounterIdOf(closure.sub) ELSE "")
     IN  CASE outcome \in {"created", "createdWithoutId"} /\ children # <<>> ->
                /\ network' = answered \o children
                /\ pc' = "awaitChildren"
                /\ UNCHANGED <<closure, submitCount, onSubmitCalls, statusVars>>
           [] outcome \in {"created", "createdWithoutId"} /\ children = <<>> ->
                /\ network' = answered
                /\ \E callbackThrows \in BOOLEAN : SubmitSucceeded(closure, callbackThrows)
                /\ UNCHANGED submitCount
           [] outcome = "emptyEnvelope" ->
                /\ network' = answered
                /\ SubmitFailed("Cannot read properties of undefined (reading 'id')")
                /\ UNCHANGED <<submitCount, onSubmitCalls>>
           [] outcome = "httpError" ->
                /\ network' = answered
                /\ SubmitFailed("HTTP error! status: 500 - ")
                /\ UNCHANGED <<submitCount, onSubmitCalls>>
  /\ OthersUnchanged({"status", "submit"})

\* the backend answers createEncounter; handleSubmit runs on to its next await
\* or to its end
EncounterResponse(i, outcome) ==
  /\ pc = "awaitEncounter"
  /\ i \in 1..Len(network)
  /\ network[i].kind = "createEncounter" /\ network[i].state = "pending"
  /\ LET answered == [network EXCEPT
                        ![i].state = IF outcome = "httpError" THEN "failed" ELSE "ok",
                        ![i].id = IF outcome = "created"
                                  THEN Some(EncounterIdOf(network[i].sub)) ELSE None]
         children == ChildRequests(closure, EncounterIdOf(closure.sub))
     IN  CASE outcome = "created" /\ children # <<>> ->
                /\ network' = answered \o children
                /\ pc' = "awaitChildren"
                /\ UNCHANGED <<closure, submitCount, onSubmitCalls, statusVars>>
           [] outcome = "created" /\ children = <<>> ->
                /\ network' = answered
                /\ \E callbackThrows \in BOOLEAN : SubmitSucceeded(closure, callbackThrows)
                /\ UNCHANGED submitCount
           [] outcome = "createdWithoutId" ->
                /\ network' = answered
                /\ SubmitFailed("No se pudo obtener el ID del encuentro creado")
                /\ UNCHANGED <<submitCount, onSubmitCalls>>
           [] outcome = "emptyEnvelope" ->
                /\ network' = answered
                /\ SubmitFailed("Cannot read properties of undefined (reading 'id')")
                /\ UNCHANGED <<submitCount, onSubmitCalls>>
           [] outcome = "httpError" ->
                /\ network' = answered
                /\ SubmitFailed("HTTP error! status: 500 - ")
                /\ UNCHANGED <<submitCount, onSubmitCalls>>
  /\ OthersUnchanged({"status", "submit"})

\* the backend answers a child request.  Promise.all rejects with the first
\* failure and resolves with the last success; the answer to a request of a
\* submission that has already ended changes nothing in the form.
ChildResponse(i, ok) ==
  /\ i \in 1..Len(network)
  /\ network[i].kind \in ChildKinds /\ network[i].state = "pending"
  /\ LET answered == [network EXCEPT ![i].state = IF ok THEN "ok" ELSE "failed"]
         awaited == pc = "awaitChildren" /\ closure.sub = network[i].sub
         allOk == \A j \in 1..Len(answered) :
                    (answered[j].sub = network[i].sub /\ answered[j].kind \in ChildKinds)
                      => answered[j].state = "ok"
     IN  /\ network' = answered
         /\ CASE awaited /\ ~ok ->
                   /\ SubmitFailed("HTTP error! status: 500 - ")
                   /\ UNCHANGED <<submitCount, onSubmitCalls>>
              [] awaited /\ ok /\ allOk ->
                   /\ \E callbackThrows \in BOOLEAN : SubmitSucceeded(closure, callbackThrows)
                   /\ UNCHANGED submitCount
              [] OTHER ->
                   UNCHANGED <<pc, closure, submitCount, onSubmitCalls, statusVars>>
  /\ OthersUnchanged({"status", "submit"})


----------------------------------------------------------------------------
(***************************************************************************)
(* The state after construction                                            *)
(***************************************************************************)
----------------------------------------------------------------------------
(***************************************************************************)
(* ApiService.  fetch resolves to a Response {status, ok, text, json},     *)
(* text and json being what reading the body as text and as JSON gives, or *)
(* rejects.  A JSON array is the record [array |-> items]; an absent       *)
(* property is an absent field; the text of a body is [stringified |-> v]  *)
(* for the JSON value v and [plain |-> t] for any other text t.  A call is *)
(* given what each fetch it makes would settle to, first attempt first,    *)
(* and yields how it settled and the number of fetch calls it made.        *)
(***************************************************************************)
Array(items) == [array |-> items]
isArray(v) == "array" \in DOMAIN v

\* response.ok
Response(status, text, json) ==
  [status |-> status, ok |-> status \in 200..299, text |-> text, json |-> json]

\* An Error is the record of what its message tells.
\* new Error(`HTTP error! status: ${response.status} - ${errorText}`)
HttpError(status, errorText) ==
  [message |-> "HTTP error! status: ", status |-> status, text |-> errorText]

\* the errors of fetch and of reading a body
FetchError == [message |-> "Failed to fetch"]
BodyError == [message |-> "Unexpected end of JSON input"]

\* request that fetches a second time when the first fetch rejects
request_RetriesOnce(outcomes) ==
  LET attempt == IF HasReturned(outcomes[1]) THEN 1 ELSE 2
      fetched == outcomes[attempt]
      settled ==
        IF ~HasReturned(fetched) THEN Threw(fetched.threw)
        ELSE LET response == fetched.returned
             IN  IF ~response.ok
                 THEN IF HasReturned(response.text)
                      THEN Threw(HttpError(response.status, response.text.returned))
                      ELSE Threw(response.text.threw)
                 ELSE IF HasReturned(response.json)
                      THEN Returned([data |-> response.json.returned,
                                     status |-> response.status])
                      ELSE Threw(response.json.threw)
  IN  [settled |-> settled, fetches |-> attempt]

\* ApiService.request: one fetch; a rejected fetch, a response that is not
\* ok and a body that cannot be read all end in the catch, which rethrows
request(outcomes) ==
  LET fetched == outcomes[1]
      settled ==
        IF ~HasReturned(fetched) THEN Threw(fetched.threw)
        ELSE LET response == fetched.returned
             IN  IF ~response.ok
                 THEN IF HasReturned(response.text)
                      THEN Threw(HttpError(response.status, response.text.returned))
                      ELSE Threw(response.text.threw)
                 ELSE IF HasReturned(response.json)
                      THEN Returned([data |-> response.json.returned,
                                     status |-> response.status])
                      ELSE Threw(response.json.threw)
  IN  [settled |-> settled, fetches |-> 1]

\* the methods that return what request returns
PassThroughMethods ==
  {"getPatientById", "createPatient", "updatePatient", "markPatientAsDeceased",
   "healthCheck"}

\* the methods that build {data: response.data.data, status, message}
UnwrappingMethods ==
  {"getPatients", "getPatientEncounters", "getPatientObservations",
   "getPatientMedicationRequests", "getPatientConditions",
   "getPatientAllergyIntolerances", "createEncounter", "createObservation",
   "createMedicationRequest", "createCondition", "createAllergyIntolerance"}

\* {data: response.data.data, status: response.status, message: response.data.message}
Unwrapped(response) ==
  LET body == response.data
  IN  [status |-> response.status]
        @@ (IF "data" \in DOMAIN body THEN [data |-> body.data] ELSE <<>>)
        @@ (IF "message" \in DOMAIN body THEN [message |-> body.message] ELSE <<>>)

\* a call of the static method named method
ApiService(method, outcomes) ==
  LET response == request(outcomes)
  IN  IF method \in UnwrappingMethods /\ HasReturned(response.settled)
      THEN [response EXCEPT !.settled = Returned(Unwrapped(response.settled.returned))]
      ELSE response

----------------------------------------------------------------------------
(***************************************************************************)
(* The list pages and their view-models.  One route is rendered at a time; *)
(* entering a route mounts its page, whose view-model starts from its      *)
(* useState value and runs its effect.  vm holds the view-model state with *)
(* the list under the name entities (patients, doctors, organizations) and *)
(* the selection under selected.  A request is {kind, live}, live telling  *)
(* whether the page that sent it is still mounted.                         *)
(***************************************************************************)
ViewModelState == [entities |-> <<>>, isLoading |-> FALSE, error |-> None, selected |-> None]

MockPages == {"/doctors", "/organizations"}

\* the lists the mock loads put in place
MockEntities(route) ==
  IF route = "/doctors"
  THEN <<[id |-> "1", name |-> "Dr. Carlos Lopez"], [id |-> "2", name |-> "Dra. Ana Martinez"]>>
  ELSE <<[id |-> "1", name |-> "Hospital General Madrid"],
         [id |-> "2", name |-> "Clinica Barcelona"]>>

\* the operations in the object a view-model hook returns
Offers(route) ==
  CASE route = "/patients" -> {"select", "clear", "refresh"}
    [] route \in MockPages -> {"select", "clear", "add", "update", "delete"}
    [] OTHER -> {}

\* the row of the patients table for a FHIR patient none of whose fields
\* makes the conversion fail
DisplayPatient(fhirPatient) ==
  LET given == IF "given" \in DOMAIN fhirPatient THEN fhirPatient.given ELSE "Unknown"
      family == IF "family" \in DOMAIN fhirPatient THEN fhirPatient.family ELSE "Unknown"
      gender == IF "gender" \in DOMAIN fhirPatient THEN fhirPatient.gender ELSE "unknown"
  IN  [id |-> IF "id" \in DOMAIN fhirPatient THEN fhirPatient.id ELSE "-",
       name |-> <<given, " ", family>>,
       birthDate |-> IF "birthDate" \in DOMAIN fhirPatient THEN fhirPatient.birthDate ELSE "-",
       gender |-> CASE gender = "unknown" -> "-"
                    [] gender = "male" -> "Masculino"
                    [] gender = "female" -> "Femenino"
                    [] gender = "other" -> "Otro"
                    [] OTHER -> gender,
       deathDate |-> None]

\* new Error('Los datos de pacientes no estan en el formato esperado')
FormatError == [message |-> "Los datos de pacientes no estan en el formato esperado"]

\* loadPatients up to its await
loadPatientsStarted(prev) == [prev EXCEPT !.isLoading = TRUE, !.error = None]

\* loadPatients whose throw for a payload that is no array is outside the try
loadPatientsSettled_ThrowsOnFormat(prev, response) ==
  IF ~HasReturned(response)
  THEN [state |-> [prev EXCEPT !.isLoading = FALSE, !.error = Some(response.threw)],
        promise |-> "fulfilled"]
  ELSE IF "data" \notin DOMAIN response.returned \/ ~isArray(response.returned.data)
       THEN [state |-> prev, promise |-> "rejected"]
       ELSE LET fhirPatients == response.returned.data.array
            IN  [state |-> [prev EXCEPT !.isLoading = FALSE,
                                        !.entities = [i \in 1..Len(fhirPatients) |->
                                                        DisplayPatient(fhirPatients[i])]],
                 promise |-> "fulfilled"]

\* loadPatients from its await on, given what ApiService.getPatients settled
\* to: the state it sets and how its own promise settles
loadPatientsSettled(prev, response) ==
  IF ~HasReturned(response)
  THEN [state |-> [prev EXCEPT !.isLoading = FALSE, !.error = Some(response.threw)],
        promise |-> "fulfilled"]
  ELSE IF "data" \notin DOMAIN response.returned \/ ~isArray(response.returned.data)
       THEN [state |-> [prev EXCEPT !.isLoading = FALSE, !.error = Some(FormatError)],
             promise |-> "fulfilled"]
       ELSE LET fhirPatients == response.returned.data.array
            IN  [state |-> [prev EXCEPT !.isLoading = FALSE,
                                        !.entities = [i \in 1..Len(fhirPatients) |->
                                                        DisplayPatient(fhirPatients[i])]],
                 promise |-> "fulfilled"]

(***************************************************************************)
(* The add-patient form of PatientsView.  Field values are sequences of    *)
(* characters.                                                             *)
(***************************************************************************)
TrimRequired ==
  {"firstName", "lastName", "identificationCountry", "identificationValue", "email",
   "phone", "cellular", "neighborhood", "street", "city", "postalCode", "department",
   "doorNumber", "height", "weight"}
PlainRequired == {"dateOfBirth", "gender", "identificationType"}

\* useState of newPatient
NewPatientForm ==
  [f \in TrimRequired \cup PlainRequired \cup {"apartmentNumber"} |->
     CASE f = "gender" -> <<"m", "a", "l", "e">>
       [] f = "identificationType" -> <<"C", "I">>
       [] OTHER -> <<>>]

\* useState of currentView, errors and newPatient; errors maps the fields in
\* error to their messages
AddPatientState == [currentView |-> "list", errors |-> <<>>, newPatient |-> NewPatientForm]

DigitOf ==
  [c \in {"0", "1", "2", "3", "4", "5", "6", "7", "8", "9"} |->
     CASE c = "0" -> 0 [] c = "1" -> 1 [] c = "2" -> 2 [] c = "3" -> 3 [] c = "4" -> 4
       [] c = "5" -> 5 [] c = "6" -> 6 [] c = "7" -> 7 [] c = "8" -> 8 [] c = "9" -> 9]

RECURSIVE DigitsValue(_)
DigitsValue(s) ==
  IF s = <<>> THEN 0 ELSE DigitsValue(SubSeq(s, 1, Len(s) - 1)) * 10 + DigitOf[s[Len(s)]]

\* Number(string) for blank text and for signed decimal integers; any other
\* text is NaN
Number(s) ==
  LET t == Trim(s)
      digits == IF t # <<>> /\ Head(t) \in {"-", "+"} THEN Tail(t) ELSE t
  IN  IF t = <<>> THEN [nan |-> FALSE, value |-> 0]
      ELSE IF digits # <<>> /\ \A i \in 1..Len(digits) : digits[i] \in DOMAIN DigitOf
           THEN [nan |-> FALSE,
                 value |-> IF Head(t) = "-" THEN 0 - DigitsValue(digits)
                           ELSE DigitsValue(digits)]
           ELSE [nan |-> TRUE, value |-> 0]

\* /^[^\s@]+@[^\s@]+\.[^\s@]+$/.test(s)
emailPattern(s) ==
  \E i \in 2..Len(s) :
    /\ s[i] = "@"
    /\ \A k \in 1..Len(s) : s[k] # " " /\ (s[k] = "@" => k = i)
    /\ \E j \in (i + 2)..(Len(s) - 1) : s[j] = "."

\* /^[\d\s\-+()]+$/.test(s)
phonePattern(s) ==
  s # <<>> /\ \A k \in 1..Len(s) : s[k] \in DOMAIN DigitOf \cup {" ", "-", "+", "(", ")"}

\* validateForm of PatientsView that skips the two checks of the e-mail
validatePatientForm_NoEmailCheck(newPatient) ==
  LET missing == {f \in TrimRequired \ {"email"} : Trim(newPatient[f]) = <<>>}
                 \cup {f \in PlainRequired : newPatient[f] = <<>>}
      badFormat == {f \in {"phone", "cellular"} :
                      newPatient[f] # <<>> /\ ~phonePattern(newPatient[f])}
      notPositive == {f \in {"height", "weight"} :
                        /\ newPatient[f] # <<>>
                        /\ Number(newPatient[f]).nan \/ Number(newPatient[f]).value <= 0}
  IN  [f \in missing \cup badFormat \cup notPositive |->
         CASE f \in notPositive -> "debe ser un numero mayor a 0"
           [] f \in badFormat -> "el formato no es valido"
           [] OTHER -> "es obligatorio"]

\* validateForm of PatientsView: the errors it sets; it returns true when
\* there is none
validatePatientForm(newPatient) ==
  LET missing == {f \in TrimRequired : Trim(newPatient[f]) = <<>>}
                 \cup {f \in PlainRequired : newPatient[f] = <<>>}
      badFormat == {f \in {"email"} :
                      newPatient[f] # <<>> /\ ~emailPattern(newPatient[f])}
                   \cup {f \in {"phone", "cellular"} :
                           newPatient[f] # <<>> /\ ~phonePattern(newPatient[f])}
      notPositive == {f \in {"height", "weight"} :
                        /\ newPatient[f] # <<>>
                        /\ Number(newPatient[f]).nan \/ Number(newPatient[f]).value <= 0}
  IN  [f \in missing \cup badFormat \cup notPositive |->
         CASE f \in notPositive -> "debe ser un numero mayor a 0"
           [] f \in badFormat -> "el formato no es valido"
           [] OTHER -> "es obligatorio"]

\* what lies outside the list pages
PageOthersUnchanged ==
  UNCHANGED <<convVars, formVars, searchVars, submitVars, mounted, searchEnvVars,
              apiVars, detailVars>>

ViewOthersUnchanged ==
  /\ PageOthersUnchanged
  /\ UNCHANGED <<addPatient, createAnswer>>

\* a route is entered: the page before is unmounted, the new one is mounted
\* and its effect runs
Navigate(route) ==
  LET orphaned == [i \in 1..Len(vmRequests) |-> [vmRequests[i] EXCEPT !.live = FALSE]]
  IN  /\ route # page
      /\ page' = route
      /\ loadPromise' = None
      /\ addPatient' = AddPatientState /\ createAnswer' = None
      /\ IF route = "/patients"
         THEN /\ Len(vmRequests) < MaxInFlight
              /\ vm' = loadPatientsStarted(ViewModelState)
              /\ vmRequests' = Append(orphaned, [kind |-> "getPatients", live |-> TRUE])
              /\ vmTimer' = FALSE
         ELSE /\ vm' = [ViewModelState EXCEPT !.isLoading = route \in MockPages]
              /\ vmRequests' = orphaned
              /\ vmTimer' = (route \in MockPages)
      /\ PageOthersUnchanged

\* refreshPatients
refreshPatients ==
  /\ page = "/patients" /\ Len(vmRequests) < MaxInFlight
  /\ vm' = loadPatientsStarted(vm)
  /\ vmRequests' = Append(vmRequests, [kind |-> "getPatients", live |-> TRUE])
  /\ UNCHANGED <<page, vmTimer, loadPromise>>
  /\ ViewOthersUnchanged

\* the backend answers the getPatients request i; setState of an unmounted
\* page is ignored
PatientsResponse(i, outcomes) ==
  /\ i \in 1..Len(vmRequests) /\ vmRequests[i].kind = "getPatients"
  /\ LET after == loadPatientsSettled(vm, ApiService("getPatients", outcomes).settled)
     IN  IF vmRequests[i].live
         THEN /\ vm' = after.state
              /\ loadPromise' = Some([settled |-> after.promise,
                                      response |-> ApiService("getPatients", outcomes).settled])
         ELSE UNCHANGED <<vm, loadPromise>>
  /\ vmRequests' = RemoveAt(vmRequests, i)
  /\ UNCHANGED <<page, vmTimer>>
  /\ ViewOthersUnchanged

\* handleAddPatient: the Agregar Paciente button of the list
handleAddPatient ==
  /\ page = "/patients" /\ addPatient.currentView = "list"
  /\ addPatient' = [addPatient EXCEPT !.currentView = "add"]
  /\ UNCHANGED <<page, vm, vmRequests, vmTimer, loadPromise, createAnswer>>
  /\ PageOthersUnchanged

\* handleInputChange for each field of values in turn: the field takes its
\* value and loses its error
handleInputChanges(values) ==
  /\ page = "/patients" /\ addPatient.currentView = "add"
  /\ addPatient' =
       [addPatient EXCEPT
          !.newPatient = [f \in DOMAIN @ |-> IF f \in DOMAIN values THEN values[f] ELSE @[f]],
          !.errors = [f \in (DOMAIN @) \ (DOMAIN values) |-> @[f]]]
  /\ UNCHANGED <<page, vm, vmRequests, vmTimer, loadPromise, createAnswer>>
  /\ PageOthersUnchanged

handleInputChange(field, value) == handleInputChanges([f \in {field} |-> value])

\* handleCancelAdd: the Volver a la Lista button
handleCancelAdd ==
  /\ page = "/patients" /\ addPatient.currentView = "add"
  /\ addPatient' = AddPatientState
  /\ UNCHANGED <<page, vm, vmRequests, vmTimer, loadPromise, createAnswer>>
  /\ PageOthersUnchanged

\* handleSubmitAdd up to its await: validateForm sets the errors, and only
\* with none of them is ApiService.createPatient called
handleSubmitAdd ==
  /\ page = "/patients" /\ addPatient.currentView = "add"
  /\ addPatient' = [addPatient EXCEPT !.errors = validatePatientForm(addPatient.newPatient)]
  /\ IF DOMAIN validatePatientForm(addPatient.newPatient) = {}
     THEN /\ Len(vmRequests) < MaxInFlight
          /\ vmRequests' = Append(vmRequests, [kind |-> "createPatient", live |-> TRUE])
     ELSE UNCHANGED vmRequests
  /\ UNCHANGED <<page, vm, vmTimer, loadPromise, createAnswer>>
  /\ PageOthersUnchanged

\* the backend answers the createPatient request i: on status 200 or 201 the
\* handler resets the form and calls refreshPatients, whose request goes out
\* even if the page is gone; otherwise it alerts
CreateResponse(i, outcomes) ==
  /\ i \in 1..Len(vmRequests) /\ vmRequests[i].kind = "createPatient"
  /\ LET response == ApiService("createPatient", outcomes).settled
     IN  /\ createAnswer' =
              IF HasReturned(response) THEN Some(Returned(response.returned.status))
              ELSE Some(Threw([message |-> response.threw.message]))
         /\ IF HasReturned(response) /\ response.returned.status \in {200, 201}
            THEN /\ vmRequests' = [vmRequests EXCEPT ![i].kind = "getPatients"]
                 /\ vm' = IF vmRequests[i].live THEN loadPatientsStarted(vm) ELSE vm
                 /\ addPatient' = IF vmRequests[i].live THEN AddPatientState ELSE addPatient
            ELSE /\ vmRequests' = RemoveAt(vmRequests, i)
                 /\ vm' = vm
                 /\ addPatient' = addPatient
  /\ UNCHANGED <<page, vmTimer, loadPromise>>
  /\ PageOthersUnchanged

\* the timer of the mock load runs
MockLoaded ==
  /\ vmTimer
  /\ vmTimer' = FALSE
  /\ vm' = [vm EXCEPT !.isLoading = FALSE, !.entities = MockEntities(page)]
  /\ UNCHANGED <<page, vmRequests, loadPromise>>
  /\ ViewOthersUnchanged

\* selectPatient / selectDoctor / selectOrganization, for a row of the list
select(entity) ==
  /\ "select" \in Offers(page)
  /\ \E i \in 1..Len(vm.entities) : vm.entities[i] = entity
  /\ vm' = [vm EXCEPT !.selected = Some(entity)]
  /\ UNCHANGED <<page, vmRequests, vmTimer, loadPromise>>
  /\ ViewOthersUnchanged

clearSelection ==
  /\ "clear" \in Offers(page)
  /\ vm' = [vm EXCEPT !.selected = None]
  /\ UNCHANGED <<page, vmRequests, vmTimer, loadPromise>>
  /\ ViewOthersUnchanged

\* addDoctor / addOrganization; now is Date.now().toString()
add(entity, now) ==
  /\ "add" \in Offers(page)
  /\ vm' = [vm EXCEPT !.entities = Append(@, [id |-> now] @@ entity)]
  /\ UNCHANGED <<page, vmRequests, vmTimer, loadPromise>>
  /\ ViewOthersUnchanged

\* updateDoctor / updateOrganization
update(id, updates) ==
  /\ "update" \in Offers(page)
  /\ vm' = [vm EXCEPT !.entities =
               [i \in 1..Len(@) |-> IF @[i].id = id THEN updates @@ @[i] ELSE @[i]]]
  /\ UNCHANGED <<page, vmRequests, vmTimer, loadPromise>>
  /\ ViewOthersUnchanged

\* prev.doctors.filter(doctor => doctor.id !== id)
RECURSIVE WithoutId(_, _)
WithoutId(list, id) ==
  IF list = <<>> THEN <<>>
  ELSE IF Head(list).id = id THEN WithoutId(Tail(list), id)
       ELSE <<Head(list)>> \o WithoutId(Tail(list), id)

\* deleteDoctor that also sends the deletion to the backend
delete_ThroughBackend(id) ==
  /\ "delete" \in Offers(page)
  /\ vm' = [vm EXCEPT !.entities = WithoutId(@, id),
                      !.selected = IF \E e \in @ : e.id = id THEN None ELSE @]
  /\ vmRequests' = Append(vmRequests, [kind |-> "delete", live |-> TRUE])
  /\ UNCHANGED <<page, vmTimer, loadPromise>>
  /\ ViewOthersUnchanged

\* deleteDoctor that leaves the selection as it is
delete_KeepsSelection(id) ==
  /\ "delete" \in Offers(page)
  /\ vm' = [vm EXCEPT !.entities = WithoutId(@, id)]
  /\ UNCHANGED <<page, vmRequests, vmTimer, loadPromise>>
  /\ ViewOthersUnchanged

\* deleteDoctor / deleteOrganization
delete(id) ==
  /\ "delete" \in Offers(page)
  /\ vm' = [vm EXCEPT !.entities = WithoutId(@, id),
                      !.selected = IF \E e \in @ : e.id = id THEN None ELSE @]
  /\ UNCHANGED <<page, vmRequests, vmTimer, loadPromise>>
  /\ ViewOthersUnchanged

\* the state of what lies outside the encounter form, before any call
AppConstructed ==
  /\ apiCall = None /\ apiFetched = None /\ apiResult = None
  /\ page = "/" /\ vm = ViewModelState /\ vmRequests = <<>> /\ vmTimer = FALSE /\ loadPromise = None
  /\ addPatient = AddPatientState /\ createAnswer = None
  /\ detailFetched = None /\ detailEncounters = None

Constructed ==
  /\ AppConstructed
  /\ convClinical = None /\ convPatient = None /\ convFhir = None /\ convDomain = None
  /\ encounterType = "Ambulatory" /\ startDate = "" /\ endDate = ""
  /\ observations = <<>> /\ newObservation = EmptyObservation
  /\ observationNames = <<>> /\ newObservationName = <<>>
  /\ medications = <<>> /\ newMedication = EmptyObservation
  /\ medicationNames = <<>> /\ newMedicationName = <<>>
  /\ diagnoses = <<>> /\ newDiagnosis = EmptyDiagnosis
  /\ diagnosisNames = <<>> /\ newDiagnosisName = <<>>
  /\ allergies = <<>> /\ newAllergy = EmptyAllergy
  /\ errors = <<>> /\ isSubmitting = FALSE /\ submitError = None /\ submitSuccess = FALSE
  /\ searchResults = [f \in Fields |-> <<>>]
  /\ isSearching = [f \in Fields |-> FALSE]
  /\ showResults = [f \in Fields |-> FALSE]
  /\ searchError = [f \in Fields |-> None]
  /\ searchTimeoutRef = [f \in Fields |-> None]
  /\ pc = "idle" /\ closure = NoClosure
  /\ mounted = TRUE /\ timers = {} /\ network = <<>> /\ submitCount = 0
  /\ onSubmitCalls = <<>> /\ searchRequests = <<>>
  /\ lastTyped = [f \in Fields |-> None]
  /\ sinceKey = [f \in Fields |-> 0]
  /\ sentSinceKey = [f \in Fields |-> <<>>]
  /\ searchRan = [f \in Fields |-> FALSE]
  /\ interruptedSinceKey = [f \in Fields |-> FALSE]

----------------------------------------------------------------------------
(***************************************************************************)
(* SpecConv: a caller applies the encounter converters                     *)
(***************************************************************************)
\* encounter types a caller can pass, the five of the type and two others
TypeInputs == EncounterTypes \cup {"Unknown", ""}

\* the child lists a caller's encounter can hold: none, or one item of a kind
ChildInputs ==
  LET none == [observations |-> <<>>, medications |-> <<>>, diagnoses |-> <<>>,
               allergies |-> <<>>]
      measured == [loincCode |-> <<"2", "3">>, method |-> "Blood test",
                   unitOfMeasure |-> "mg/dL", value |-> "95"]
  IN  {none,
       [none EXCEPT !.observations = <<measured>>],
       [none EXCEPT !.medications = <<measured>>],
       [none EXCEPT !.diagnoses = <<[description |-> "Asthma", diagnosisCode |-> <<"3", "8">>,
                                     status |-> "active"]>>],
       [none EXCEPT !.allergies = <<[description |-> "Penicillin", active |-> TRUE]>>]}

ClinicalInputs ==
  {[encounterType |-> t, startDate |-> d, endDate |-> e,
    observations |-> k.observations, medications |-> k.medications,
    diagnoses |-> k.diagnoses, allergies |-> k.allergies] :
     t \in TypeInputs, d \in {1, 2}, e \in {None, Some(2)}, k \in ChildInputs}

\* every spelling of a code in upper and lower case letters
RECURSIVE Spellings(_)
Spellings(code) ==
  IF code = <<>> THEN {<<>>}
  ELSE {<<c>> \o rest : c \in {Head(code), LowerChar(Head(code))},
                        rest \in Spellings(Tail(code))}

CodeInputs ==
  UNION {Spellings(c) : c \in {AMB, EMER, IMP, VR, HH}}
  \cup {<<>>, <<"X">>, <<"A", "M">>, <<"A", "M", "B", "X">>, <<"H">>, <<"I", "M", "B">>}

\* FHIR encounters a backend can return
FhirInputs ==
  {[resourceType |-> "Encounter", id |-> "e1", class |-> [system |-> ActCode, code |-> c],
    period |-> [start |-> "2024-01-01T13:00:00.000Z"]] : c \in CodeInputs}
  \cup {[resourceType |-> "Encounter", id |-> "e1", class |-> [system |-> ActCode]],
        [resourceType |-> "Encounter", class |-> [code |-> AMB]],
        [resourceType |-> "Encounter", id |-> "e1"]}

CallToFHIREncounter ==
  /\ \E c \in ClinicalInputs :
       /\ convClinical' = Some(c)
       /\ convPatient' = Some(patientId)
       /\ convFhir' = Some(toFHIREncounter(c, patientId))
  /\ convDomain' = None
  /\ UNCHANGED <<formVars, searchVars, submitVars, mounted, searchEnvVars, appVars>>

ReceiveFHIREncounter ==
  /\ \E f \in FhirInputs : convFhir' = Some(f)
  /\ convClinical' = None /\ convPatient' = None /\ convDomain' = None
  /\ UNCHANGED <<formVars, searchVars, submitVars, mounted, searchEnvVars, appVars>>

CallFromFHIREncounter ==
  /\ convFhir # None
  /\ convDomain' = Some(fromFHIREncounter(TheOne(convFhir)))
  /\ UNCHANGED <<convClinical, convPatient, convFhir>>
  /\ UNCHANGED <<formVars, searchVars, submitVars, mounted, searchEnvVars, appVars>>

NextConv == CallToFHIREncounter \/ ReceiveFHIREncounter \/ CallFromFHIREncounter

SpecConv == Constructed /\ [][NextConv]_vars


\* C5: for each of the five encounter types T, fromFHIREncounter applied to the
\* result of toFHIREncounter for an encounter of type T returns encounterType T.
C5_TypeRoundTrip ==
  (convClinical # None /\ convDomain # None
     /\ TheOne(convClinical).encounterType \in EncounterTypes)
  => /\ HasReturned(TheOne(convDomain))
     /\ TheOne(convDomain).returned.encounterType = TheOne(convClinical).encounterType

C5_Witness ==
  /\ convClinical # None /\ convDomain # None
  /\ TheOne(convClinical).encounterType = "Hospitalization"
  /\ TheOne(convFhir).class.code = IMP

\* the table of the claim C6
C6_Table(t) ==
  CASE t = "Ambulatory" -> AMB
    [] t = "Emergency" -> EMER
    [] t = "Hospitalization" -> IMP
    [] t = "Virtual" -> VR
    [] t = "Home" -> HH
    [] OTHER -> AMB

\* C6: toFHIREncounter maps Ambulatory to AMB, Emergency to EMER, Hospitalization
\* to IMP, Virtual to VR and Home to HH, and every other encounterType to AMB.
C6_ClassCode ==
  convClinical # None =>
    TheOne(convFhir).class.code = C6_Table(TheOne(convClinical).encounterType)

C6_Witness ==
  /\ convClinical # None
  /\ TheOne(convClinical).encounterType = "Unknown"
  /\ TheOne(convFhir).class.code = AMB

\* two texts that differ at most in the case of their letters
SameIgnoringCase(a, b) ==
  /\ Len(a) = Len(b)
  /\ \A i \in 1..Len(a) :
       \/ a[i] = b[i]
       \/ \E l \in LowerLetters : {a[i], b[i]} = {l, UpperOf[l]}

\* C7: fromFHIREncounter maps the class code to the encounter type by the table
\* of toFHIREncounter read in reverse, whatever the case of the letters of the
\* code, and maps a code outside the table, or an absent code, to Ambulatory.
C7_ReverseTable ==
  (convFhir # None /\ convDomain # None /\ "class" \in DOMAIN TheOne(convFhir)) =>
    LET class == TheOne(convFhir).class
        result == TheOne(convDomain)
        matches == IF "code" \in DOMAIN class
                   THEN {t \in EncounterTypes : SameIgnoringCase(class.code, C6_Table(t))}
                   ELSE {}
    IN  /\ HasReturned(result)
        /\ IF matches = {}
           THEN result.returned.encounterType = "Ambulatory"
           ELSE result.returned.encounterType \in matches

C7_Witness ==
  /\ convFhir # None /\ convDomain # None
  /\ "class" \in DOMAIN TheOne(convFhir) /\ "code" \in DOMAIN TheOne(convFhir).class
  /\ TheOne(convFhir).class.code = <<"e", "M", "e", "R">>
  /\ TheOne(convDomain).returned.encounterType = "Emergency"

\* the four child lists of an encounter
ChildLists(e) == <<e.observations, e.medications, e.diagnoses, e.allergies>>

\* C17: whenever fromFHIREncounter returns, the four child lists of its result
\* are empty; and toFHIREncounter followed by fromFHIREncounter returns an
\* encounter whose child lists differ from those of the encounter converted
\* whenever that encounter has a child item.
C17_ChildListsDropped ==
  convDomain # None =>
    /\ HasReturned(TheOne(convDomain)) =>
         ChildLists(TheOne(convDomain).returned) = <<<<>>, <<>>, <<>>, <<>>>>
    /\ (convClinical # None /\ ChildLists(TheOne(convClinical)) # <<<<>>, <<>>, <<>>, <<>>>>) =>
         /\ HasReturned(TheOne(convDomain))
         /\ ChildLists(TheOne(convDomain).returned) # ChildLists(TheOne(convClinical))

\* an encounter with one diagnosis has gone through both converters
C17_Witness ==
  /\ convClinical # None /\ convDomain # None
  /\ Len(TheOne(convClinical).diagnoses) = 1
  /\ HasReturned(TheOne(convDomain))
  /\ TheOne(convDomain).returned.diagnoses = <<>>
  /\ TheOne(convDomain).returned.encounterType = TheOne(convClinical).encounterType

\* C19, for fromFHIREncounter: the converter returns a domain encounter for
\* every FHIR encounter, whichever of class, code, id and period it lacks.
C19_NoConverterRaises ==
  convDomain # None => HasReturned(TheOne(convDomain))


----------------------------------------------------------------------------
(***************************************************************************)
(* SpecSearch: the user types in the LOINC code field, leaves it, picks a  *)
(* result; time passes, timers run, the terminology endpoint answers; the  *)
(* component is unmounted.                                                 *)
(***************************************************************************)
\* what the user can leave in the field with one change event: nothing, one
\* character, terms with and without blanks around them
TermInputs ==
  {<<>>, <<"a">>, <<"a", "b">>, <<"a", " ">>, <<" ", "a", "b">>, <<"a", "b", "c">>}

\* the item lists the endpoint can answer with for field f
AnswersOf(f) == {<<>>} \cup {<<item>> : item \in ItemsOf(f)}

TypeLoincCode ==
  \E value \in TermInputs :
    /\ Len(searchRequests) < MaxInFlight
    /\ handleLoincInputChange(value)

LeaveLoincField == handleInputBlur("loinc")

PickLoincResult == \E r \in Rendered("loinc") : handleLoincSelect(r)

RunSearchTimer == \E t \in timers : SearchTimeout(t)

RunBlurTimer == \E t \in timers : BlurTimeout(t)

AnswerSearch ==
  \E i \in 1..Len(searchRequests) :
    \E items \in AnswersOf(searchRequests[i].field) : SearchResponse(i, items)

NextSearch ==
  \/ TypeLoincCode
  \/ LeaveLoincField
  \/ PickLoincResult
  \/ RunSearchTimer
  \/ RunBlurTimer
  \/ AnswerSearch
  \/ Unmount
  \/ Tick

SpecSearch == Constructed /\ [][NextSearch]_vars


\* a step in which the user changes the text of field f
Keystroke(f) ==
  /\ lastTyped'[f] # None /\ sinceKey'[f] = 0
  /\ lastTyped'[f] # lastTyped[f] \/ sinceKey[f] > 0

SearchTimersOf(ts, f) == {t \in ts : t.kind = "search" /\ t.field = f}

DelayElapsed(f) ==
  /\ lastTyped[f] # None
  /\ sinceKey[f] >= DebounceMs
  /\ \A t \in timers : t.remaining > 0

\* C10 as stated, read in its favour (the field is not left, no result is
\* picked and the form stays mounted while the delay runs; the request may carry
\* the term without the blanks around it): once the delay has passed after a
\* last keystroke that left a term of length >= 2, exactly one request has been
\* sent since that keystroke, for that term.
C10_Original ==
  \A f \in Fields :
    (DelayElapsed(f) /\ Len(TheOne(lastTyped[f])) >= 2 /\ ~interruptedSinceKey[f])
      => sentSinceKey[f] = <<Trim(TheOne(lastTyped[f]))>>

\* C10 (amended): once the delay has passed after a last keystroke that left a
\* term of trimmed length >= 2, and no blur timeout, result selection or unmount
\* came before the search ran, exactly one request has been sent since that
\* keystroke, for the trimmed term.
C10_OneRequestPerBurst ==
  \A f \in Fields :
    (DelayElapsed(f) /\ Len(Trim(TheOne(lastTyped[f]))) >= 2 /\ ~interruptedSinceKey[f])
      => sentSinceKey[f] = <<Trim(TheOne(lastTyped[f]))>>

C10_Witness ==
  /\ DelayElapsed("loinc")
  /\ lastTyped["loinc"] = Some(<<" ", "a", "b">>)
  /\ ~interruptedSinceKey["loinc"]
  /\ sentSinceKey["loinc"] = << <<"a", "b">> >>
  /\ Len(searchRequests) = 2

\* C11: a code search field has at most one debounce timer pending at any time,
\* and that timer is the one the last keystroke scheduled (it is held in the
\* field's ref and carries the last typed term); so when a debounce timer runs
\* its search, the term it searches is the last one typed, never a superseded
\* one.
C11_OneTimerPerField ==
  /\ [](\A f \in Fields :
          /\ Cardinality(SearchTimersOf(timers, f)) <= 1
          /\ \A t \in SearchTimersOf(timers, f) :
                /\ searchTimeoutRef[f] = Some(t.id)
                /\ lastTyped[f] = Some(t.term))
  /\ [][\A f \in Fields :
          (~searchRan[f] /\ searchRan'[f] /\ lastTyped'[f] = lastTyped[f]) =>
             \E t \in SearchTimersOf(timers, f) :
               /\ t.remaining = 0
               /\ lastTyped[f] = Some(t.term)
               /\ SearchTimersOf(timers', f) = {}
               /\ \/ searchRequests' = searchRequests
                  \/ searchRequests' =
                       Append(searchRequests, [field |-> f, term |-> Trim(t.term)])]_vars

\* a keystroke has just replaced the pending timer of an earlier keystroke:
\* the only timer of the field is the second one the browser handed out
C11_Witness ==
  /\ lastTyped["loinc"] = Some(<<"a", "b", "c">>) /\ sinceKey["loinc"] = 0
  /\ timers = {[id |-> 2, kind |-> "search", field |-> "loinc",
                term |-> <<"a", "b", "c">>, remaining |-> DebounceMs]}
  /\ searchTimeoutRef["loinc"] = Some(2)
  /\ searchRequests = <<>>

\* C12: a search request in flight is never withdrawn by a later step of the
\* form (keystroke, selection, blur, timer), and whenever a request is answered
\* while the form is mounted, whatever has been typed or selected since it was
\* sent, the answer's codes become the field's result list, the list is shown
\* and the searching flag is reset.
C12_StaleResponseStillShown ==
  [][/\ Len(searchRequests') >= Len(searchRequests) =>
          SubSeq(searchRequests', 1, Len(searchRequests)) = searchRequests
     /\ \A i \in 1..Len(searchRequests) :
          (mounted /\ mounted' /\ searchRequests' = RemoveAt(searchRequests, i)) =>
             \E j \in 1..Len(searchRequests) :
               /\ searchRequests' = RemoveAt(searchRequests, j)
               /\ LET f == searchRequests[j].field
                  IN  /\ showResults'[f]
                      /\ ~isSearching'[f]
                      /\ \E items \in AnswersOf(f) :
                            searchResults'[f] =
                              [k \in 1..Len(items) |-> CodeOf(f, items[k])]]_vars

\* the answer to the request for an earlier term has arrived after a later
\* keystroke and is displayed: the later term's timer is still pending, nothing
\* has been sent for it, yet results are shown and the searching flag is off
C12_Witness ==
  /\ mounted
  /\ lastTyped["loinc"] = Some(<<"a", "b", "c">>)
  /\ SearchTimersOf(timers, "loinc") # {}
  /\ sentSinceKey["loinc"] = <<>>
  /\ showResults["loinc"] /\ searchResults["loinc"] # <<>>
  /\ ~isSearching["loinc"]

\* the code and the display name of the draft item that field f fills
DraftCode(f) ==
  CASE f = "loinc" -> newObservation.loincCode
    [] f = "medication" -> newMedication.loincCode
    [] f = "diagnosis" -> newDiagnosis.diagnosisCode

DraftName(f) ==
  CASE f = "loinc" -> newObservationName
    [] f = "medication" -> newMedicationName
    [] f = "diagnosis" -> newDiagnosisName

\* C20: a step that puts into the draft of a search field a code other than
\* the typed text is the selection of one of the results displayed for that field;
\* it stores the result's code in the draft's code field and the result's
\* display name in the draft name, leaves the field without a pending debounce
\* timer and with an empty ref, and leaves the result list empty and hidden.
C20_SelectStoresCodeAndName ==
  [][\A f \in Fields :
       (/\ DraftCode(f)' # DraftCode(f) /\ DraftCode(f)' # <<>>
        /\ lastTyped'[f] # Some(DraftCode(f)')) =>
          /\ \E r \in Rendered(f) :
                /\ DraftCode(f)' = r.code
                /\ DraftName(f)' = r.shortName
          /\ SearchTimersOf(timers', f) = {}
          /\ searchTimeoutRef'[f] = None
          /\ searchResults'[f] = <<>>
          /\ ~showResults'[f]
          /\ ~isSearching'[f]]_vars

\* a result has been picked while the timer of a later keystroke was pending:
\* the draft holds the result's code and name, the last typed term was never
\* searched and its timer is gone
C20_Witness ==
  /\ newObservation.loincCode = CodeOf("loinc", LoincItem).code
  /\ newObservationName = CodeOf("loinc", LoincItem).shortName
  /\ lastTyped["loinc"] = Some(<<"a", "b", "c">>)
  /\ sinceKey["loinc"] < DebounceMs
  /\ interruptedSinceKey["loinc"] /\ ~searchRan["loinc"]
  /\ timers = {} /\ searchTimeoutRef["loinc"] = None
  /\ searchResults["loinc"] = <<>> /\ ~showResults["loinc"]


----------------------------------------------------------------------------
(***************************************************************************)
(* SpecForm: the user fills the observation and medication drafts, adds    *)
(* and removes items.  It starts where SpecSearch leaves the form once a   *)
(* search in one of the two code fields has been answered with one result: *)
(* the term is in the draft and the result is displayed.  The user then    *)
(* picks the result or types over the term; terms long enough to be        *)
(* searched again are left to SpecSearch.                                  *)
(***************************************************************************)
SearchedTerm == <<"a", "b">>

AfterSearch(f) ==
  /\ AppConstructed
  /\ convClinical = None /\ convPatient = None /\ convFhir = None /\ convDomain = None
  /\ encounterType = "Ambulatory" /\ startDate = "" /\ endDate = ""
  /\ observations = <<>> /\ observationNames = <<>> /\ newObservationName = <<>>
  /\ newObservation =
       [EmptyObservation EXCEPT !.loincCode = IF f = "loinc" THEN SearchedTerm ELSE <<>>]
  /\ medications = <<>> /\ medicationNames = <<>> /\ newMedicationName = <<>>
  /\ newMedication =
       [EmptyObservation EXCEPT !.loincCode = IF f = "medication" THEN SearchedTerm ELSE <<>>]
  /\ diagnoses = <<>> /\ diagnosisNames = <<>> /\ newDiagnosisName = <<>>
  /\ newDiagnosis =
       [EmptyDiagnosis EXCEPT !.diagnosisCode = IF f = "diagnosis" THEN SearchedTerm ELSE <<>>]
  /\ allergies = <<>> /\ newAllergy = EmptyAllergy
  /\ errors = <<>> /\ isSubmitting = FALSE /\ submitError = None /\ submitSuccess = FALSE
  /\ searchResults =
       [g \in Fields |-> IF g = f THEN <<CodeOf(f, TheOne(ItemsOf(f)))>> ELSE <<>>]
  /\ isSearching = [g \in Fields |-> FALSE]
  /\ showResults = [g \in Fields |-> g = f]
  /\ searchError = [g \in Fields |-> None]
  /\ searchTimeoutRef = [g \in Fields |-> IF g = f THEN Some(1) ELSE None]
  /\ pc = "idle" /\ closure = NoClosure
  /\ mounted = TRUE /\ timers = {} /\ network = <<>> /\ submitCount = 0
  /\ onSubmitCalls = <<>> /\ searchRequests = <<>>
  /\ lastTyped = [g \in Fields |-> IF g = f THEN Some(SearchedTerm) ELSE None]
  /\ sinceKey = [g \in Fields |-> IF g = f THEN DebounceMs ELSE 0]
  /\ sentSinceKey = [g \in Fields |-> IF g = f THEN <<SearchedTerm>> ELSE <<>>]
  /\ searchRan = [g \in Fields |-> g = f]
  /\ interruptedSinceKey = [g \in Fields |-> FALSE]

InitForm == \E f \in Fields : AfterSearch(f)

ShortInputs == {t \in TermInputs : Len(t) < MinTermLength}

EditObservation ==
  \/ \E v \in MethodInputs : setNewObservation("method", v)
  \/ \E v \in UnitInputs : setNewObservation("unitOfMeasure", v)
  \/ \E v \in ValueInputs : setNewObservation("value", v)

EditMedication ==
  \/ \E v \in MethodInputs : setNewMedication("method", v)
  \/ \E v \in UnitInputs : setNewMedication("unitOfMeasure", v)
  \/ \E v \in ValueInputs : setNewMedication("value", v)

RetypeLoincCode ==
  /\ lastTyped["loinc"] # None
  /\ \E v \in ShortInputs : handleLoincInputChange(v)

RetypeMedicationCode ==
  /\ lastTyped["medication"] # None
  /\ \E v \in ShortInputs : handleMedicationInputChange(v)

PickMedicationResult == \E r \in Rendered("medication") : handleMedicationSelect(r)

PickDiagnosisResult == \E r \in Rendered("diagnosis") : handleDiagnosisSelect(r)

AddObservation == Len(observations) < MaxItems /\ addObservation

RemoveObservation == \E i \in 1..Len(observations) : removeObservation(i)

AddMedication == Len(medications) < MaxItems /\ addMedication

RemoveMedication == \E i \in 1..Len(medications) : removeMedication(i)

NextForm ==
  \/ EditObservation
  \/ EditMedication
  \/ RetypeLoincCode
  \/ RetypeMedicationCode
  \/ PickLoincResult
  \/ PickMedicationResult
  \/ PickDiagnosisResult
  \/ AddObservation
  \/ RemoveObservation
  \/ AddMedication
  \/ RemoveMedication
  \/ \E v \in {"", "Flu"} : setNewDiagnosis("description", v)
  \/ \E v \in {"", "active"} : setNewDiagnosis("status", v)
  \/ Len(diagnoses) < MaxItems /\ addDiagnosis
  \/ \E i \in 1..Len(diagnoses) : removeDiagnosis(i)

SpecForm == InitForm /\ [][NextForm]_vars


\* the four fields addObservation and addMedication test
Complete(draft) ==
  draft.loincCode # <<>> /\ draft.method # "" /\ draft.unitOfMeasure # ""
    /\ draft.value # ""

\* C8: addObservation and addMedication append the draft to their list, its name
\* to the names list, and reset the draft and the name, only when the code, the
\* method, the unit and the value of the draft are all non-empty; called with
\* any of them empty they leave the list, the names list and the draft as they
\* are.  So a list only ever grows by a complete draft, every item of a list is
\* complete, and the names list is as long as its list.
C8_AddNeedsCompleteDraft ==
  /\ [](/\ \A i \in 1..Len(observations) : Complete(observations[i])
        /\ \A i \in 1..Len(medications) : Complete(medications[i])
        /\ Len(observationNames) = Len(observations)
        /\ Len(medicationNames) = Len(medications))
  /\ [][/\ Len(observations') > Len(observations) =>
            /\ Complete(newObservation)
            /\ observations' = Append(observations, newObservation)
            /\ observationNames' = Append(observationNames, newObservationName)
            /\ newObservation' = EmptyObservation
            /\ newObservationName' = <<>>
        /\ Len(medications') > Len(medications) =>
            /\ Complete(newMedication)
            /\ medications' = Append(medications, newMedication)
            /\ medicationNames' = Append(medicationNames, newMedicationName)
            /\ newMedication' = EmptyObservation
            /\ newMedicationName' = <<>>
        /\ (addObservation /\ ~Complete(newObservation)) => UNCHANGED obsVars
        /\ (addMedication /\ ~Complete(newMedication)) => UNCHANGED medVars]_vars

\* an observation picked from the results has been added with its name, the
\* draft is reset and already holds the method of the next one
C8_Witness ==
  /\ Len(observations) = 1
  /\ observations[1].loincCode = LoincItem.ui
  /\ observationNames = << <<"G", "l">> >>
  /\ newObservation = [EmptyObservation EXCEPT !.method = "Blood test"]
  /\ newObservationName = <<>>
  /\ medications = <<>>


----------------------------------------------------------------------------
(***************************************************************************)
(* Spec: a filled form is submitted.  The form starts with the lists the   *)
(* add handlers have built: observations whose code was picked from the    *)
(* results (the names list holds the short name) or typed and left as it   *)
(* was when the field lost the focus (the names list holds ''), and        *)
(* likewise a medication, a diagnosis and an allergy.  Each code field     *)
(* that was used is as the selection, or the blur timeout after an empty   *)
(* answer, leaves it.  The user removes items, changes the start date and  *)
(* submits; the backend answers.                                           *)
(***************************************************************************)
SeqsUpTo(S, n) == UNION {[1..k -> S] : k \in 0..n}

ObservationEntries ==
  {[item |-> [loincCode |-> LoincItem.ui, method |-> "Blood test",
              unitOfMeasure |-> "mg/dL", value |-> "95"],
    name |-> LoincCodeOf(LoincItem).shortName],
   [item |-> [loincCode |-> SearchedTerm, method |-> "Blood test",
              unitOfMeasure |-> "mg/dL", value |-> "95"],
    name |-> <<>>]}

MedicationEntries ==
  {[item |-> [loincCode |-> SnomedItem.ui, method |-> "Blood test",
              unitOfMeasure |-> "mg/dL", value |-> "95"],
    name |-> SnomedCodeOf(SnomedItem).shortName]}

DiagnosisEntries ==
  {[item |-> [description |-> "Asthma", diagnosisCode |-> SnomedItem.ui,
              status |-> "active"],
    name |-> SnomedCodeOf(SnomedItem).shortName]}

AllergyEntries == {[description |-> "Penicillin", active |-> TRUE]}

FilledForms ==
  {form \in [obs : SeqsUpTo(ObservationEntries, MaxItems),
             meds : SeqsUpTo(MedicationEntries, MaxItems),
             diags : SeqsUpTo(DiagnosisEntries, MaxItems),
             alls : SeqsUpTo(AllergyEntries, MaxItems)] :
     Len(form.obs) + Len(form.meds) + Len(form.diags) + Len(form.alls) <= MaxItems}

ItemsIn(entries) == [i \in 1..Len(entries) |-> entries[i].item]
NamesIn(entries) == [i \in 1..Len(entries) |-> entries[i].name]

StartChoices == {"", "2024-01-01T10:00"}

Filled(form, type) ==
  LET used == [f \in Fields |->
                 CASE f = "loinc" -> form.obs # <<>>
                   [] f = "medication" -> form.meds # <<>>
                   [] f = "diagnosis" -> form.diags # <<>>]
  IN  /\ AppConstructed
      /\ convClinical = None /\ convPatient = None /\ convFhir = None /\ convDomain = None
      /\ encounterType = type /\ startDate = "" /\ endDate = ""
      /\ observations = ItemsIn(form.obs) /\ observationNames = NamesIn(form.obs)
      /\ newObservation = EmptyObservation /\ newObservationName = <<>>
      /\ medications = ItemsIn(form.meds) /\ medicationNames = NamesIn(form.meds)
      /\ newMedication = EmptyObservation /\ newMedicationName = <<>>
      /\ diagnoses = ItemsIn(form.diags) /\ diagnosisNames = NamesIn(form.diags)
      /\ newDiagnosis = EmptyDiagnosis /\ newDiagnosisName = <<>>
      /\ allergies = form.alls /\ newAllergy = EmptyAllergy
      /\ errors = <<>> /\ isSubmitting = FALSE /\ submitError = None /\ submitSuccess = FALSE
      /\ searchResults = [f \in Fields |-> <<>>]
      /\ isSearching = [f \in Fields |-> FALSE]
      /\ showResults = [f \in Fields |-> FALSE]
      /\ searchError = [f \in Fields |-> None]
      /\ searchTimeoutRef = [f \in Fields |-> None]
      /\ pc = "idle" /\ closure = NoClosure
      /\ mounted = TRUE /\ timers = {} /\ network = <<>> /\ submitCount = 0
      /\ onSubmitCalls = <<>> /\ searchRequests = <<>>
      /\ lastTyped = [f \in Fields |-> IF used[f] THEN Some(SearchedTerm) ELSE None]
      /\ sinceKey = [f \in Fields |-> IF used[f] THEN DebounceMs ELSE 0]
      /\ sentSinceKey = [f \in Fields |-> IF used[f] THEN <<SearchedTerm>> ELSE <<>>]
      /\ searchRan = [f \in Fields |-> used[f]]
      /\ interruptedSinceKey = [f \in Fields |-> FALSE]

Init == \E form \in FilledForms, type \in EncounterTypes : Filled(form, type)

ChangeStartDate == \E s \in StartChoices : setStartDate(s)

RemoveDiagnosis == \E i \in 1..Len(diagnoses) : removeDiagnosis(i)

RemoveAllergy == \E i \in 1..Len(allergies) : removeAllergy(i)

Submit == handleSubmit

AnswerEncounter ==
  \E i \in 1..Len(network), outcome \in EncounterOutcomes : EncounterResponse(i, outcome)

AnswerChild == \E i \in 1..Len(network), ok \in BOOLEAN : ChildResponse(i, ok)

Next ==
  \/ ChangeStartDate
  \/ RemoveObservation
  \/ RemoveMedication
  \/ RemoveDiagnosis
  \/ RemoveAllergy
  \/ Submit
  \/ AnswerEncounter
  \/ AnswerChild

Spec == Init /\ [][Next]_vars

\* the three cases in which the form may not be submitted
InvalidForm ==
  \/ startDate = ""
  \/ encounterType = ""
  \/ observations = <<>> /\ medications = <<>> /\ diagnoses = <<>> /\ allergies = <<>>

\* C1: handleSubmit sends no request to the backend when startDate is empty,
\* encounterType is empty or the four lists are all empty: the log of requests
\* is as it was, the error list is non-empty afterwards and isSubmitting stays
\* false.  So a submission that runs was started from a form with a start date,
\* a type and an item.
C1_InvalidFormSendsNothing ==
  /\ [](pc # "idle" =>
          /\ closure.startDate # "" /\ closure.encounterType # ""
          /\ closure.observations # <<>> \/ closure.medications # <<>>
               \/ closure.diagnoses # <<>> \/ closure.allergies # <<>>)
  /\ [][(handleSubmit /\ InvalidForm) =>
          /\ network' = network
          /\ errors' # <<>>
          /\ ~isSubmitting /\ ~isSubmitting'
          /\ pc' = pc /\ submitCount' = submitCount]_vars

\* a form with an observation and no start date has been submitted
C1_Witness ==
  /\ errors = <<"La fecha de inicio es requerida">>
  /\ startDate = "" /\ observations # <<>>
  /\ network = <<>> /\ ~isSubmitting /\ pc = "idle"

\* the answer to a request reports a failure, or is an encounter without id
Failed(r) ==
  \/ r.state = "failed"
  \/ r.kind = "createEncounter" /\ r.state = "ok" /\ r.id = None

\* C2: a child create request of a submission is in the log only after the
\* createEncounter request of that submission, which has been answered with
\* success and a non-empty id, the id the child refers to; a submission whose
\* createEncounter is pending, failed or was answered without id has no child
\* request.
C2_ChildrenAfterEncounterId ==
  /\ \A j \in 1..Len(network) : network[j].kind \in ChildKinds =>
       \E i \in 1..(j - 1) :
         /\ network[i].kind = "createEncounter" /\ network[i].sub = network[j].sub
         /\ network[i].state = "ok" /\ network[i].id # None
         /\ "encounter" \in DOMAIN network[j].body
         /\ network[j].body.encounter.reference = "Encounter/" \o TheOne(network[i].id)
  /\ \A i \in 1..Len(network) :
       (network[i].kind = "createEncounter"
          /\ (network[i].state = "pending" \/ Failed(network[i])))
       => \A j \in 1..Len(network) :
            network[j].sub = network[i].sub => network[j].kind \notin ChildKinds

\* one submission was answered without id and has no child request, another
\* was answered with an id and has one
C2_Witness ==
  /\ \E i \in 1..Len(network) :
       /\ network[i].kind = "createEncounter" /\ network[i].state = "ok"
       /\ network[i].id = None
       /\ \A j \in 1..Len(network) : network[j].sub = network[i].sub => j = i
  /\ \E j \in 1..Len(network) : network[j].kind \in ChildKinds
  /\ submitCount = 2

\* C3: when the createEncounter request or a child create request of the
\* running submission fails, the submission ends with submitError set,
\* submitSuccess false and without a call of onSubmit; the step sends no
\* request and leaves every resource created so far as it is.  The log never
\* holds a request other than the five create requests, onSubmit is never
\* called for a submission one of whose requests failed, and the form at rest
\* after such a submission shows the error.
C3_FailureReportedNothingUndone ==
  /\ [](\A i \in 1..Len(network) :
          /\ network[i].kind \in {"createEncounter"} \cup ChildKinds
          /\ Failed(network[i]) =>
               \A k \in 1..Len(onSubmitCalls) : onSubmitCalls[k].sub # network[i].sub)
  /\ []((pc = "idle" /\ \E i \in 1..Len(network) :
                           network[i].sub = submitCount /\ Failed(network[i]))
          => (submitError # None /\ ~submitSuccess /\ ~isSubmitting))
  /\ [][\A i \in 1..Len(network) :
          (pc # "idle" /\ closure.sub = network[i].sub
             /\ network[i].state = "pending" /\ Failed(network'[i]))
          => /\ pc' = "idle" /\ ~isSubmitting'
             /\ submitError' # None /\ ~submitSuccess'
             /\ onSubmitCalls' = onSubmitCalls
             /\ Len(network') = Len(network)
             /\ \A j \in 1..Len(network) : j # i => network'[j] = network[j]]_vars

\* a submission has failed on a child request after another child of it was
\* created: the error is shown and the encounter and that child remain
C3_Witness ==
  /\ pc = "idle" /\ submitError # None /\ ~submitSuccess /\ onSubmitCalls = <<>>
  /\ \E i, j, k \in 1..Len(network) :
       /\ network[i].kind = "createEncounter" /\ network[i].state = "ok"
       /\ network[j].kind \in ChildKinds /\ network[j].state = "ok"
       /\ network[k].kind \in ChildKinds /\ network[k].state = "failed"
       /\ network[i].sub = network[j].sub /\ network[j].sub = network[k].sub

\* the requests of one kind of submission sub, in the order they were sent
RequestsOf(sub, kind) ==
  LET Wanted(r) == r.sub = sub /\ r.kind = kind
  IN  SelectSeq(network, Wanted)

\* the patient reference of a child request
PatientReferenceOf(r) ==
  IF r.kind = "createAllergyIntolerance" THEN r.body.patient.reference
  ELSE r.body.subject.reference

\* C4: for a submission all of whose requests succeeded (the one onSubmit is
\* called for), the log holds one createEncounter request, whose class code is
\* the one the table gives for the selected type (EMER for Emergency), and
\* one child request per item of each list, in the order of the list, each
\* with the reference Patient/{patientId} and the reference Encounter/{id} of
\* the id createEncounter returned.
C4_OneChildRequestPerItem ==
  \A k \in 1..Len(onSubmitCalls) :
    LET sub == onSubmitCalls[k].sub
        encounter == onSubmitCalls[k].encounter
        created == RequestsOf(sub, "createEncounter")
        obs == RequestsOf(sub, "createObservation")
        meds == RequestsOf(sub, "createMedicationRequest")
        conds == RequestsOf(sub, "createCondition")
        alls == RequestsOf(sub, "createAllergyIntolerance")
    IN  /\ Len(created) = 1
        /\ created[1].state = "ok" /\ created[1].id # None
        /\ created[1].body.class.code = C6_Table(encounter.encounterType)
        /\ encounter.encounterType = "Emergency" => created[1].body.class.code = EMER
        /\ created[1].body.subject.reference = "Patient/" \o patientId
        /\ Len(obs) = Len(encounter.observations)
        /\ Len(meds) = Len(encounter.medications)
        /\ Len(conds) = Len(encounter.diagnoses)
        /\ Len(alls) = Len(encounter.allergies)
        /\ \A i \in 1..Len(obs) :
             obs[i].body.valueQuantity.unit = encounter.observations[i].unitOfMeasure
        /\ \A i \in 1..Len(meds) :
             meds[i].body.dosageInstruction[1].route.text = encounter.medications[i].method
        /\ \A i \in 1..Len(conds) :
             conds[i].body.code.text = encounter.diagnoses[i].description
        /\ \A i \in 1..Len(alls) :
             alls[i].body.code.text = encounter.allergies[i].description
        /\ \A j \in 1..Len(network) :
             (network[j].sub = sub /\ network[j].kind \in ChildKinds) =>
               /\ network[j].state = "ok"
               /\ PatientReferenceOf(network[j]) = "Patient/" \o patientId
               /\ "encounter" \in DOMAIN network[j].body
               /\ network[j].body.encounter.reference
                    = "Encounter/" \o TheOne(created[1].id)

\* an Emergency encounter with an observation and an allergy has been created
C4_Witness ==
  /\ submitSuccess /\ pc = "idle"
  /\ \E k \in 1..Len(onSubmitCalls) :
       /\ onSubmitCalls[k].encounter.encounterType = "Emergency"
       /\ Len(onSubmitCalls[k].encounter.observations) = 1
       /\ Len(onSubmitCalls[k].encounter.allergies) = 1
       /\ Len(RequestsOf(onSubmitCalls[k].sub, "createObservation")) = 1
       /\ Len(RequestsOf(onSubmitCalls[k].sub, "createAllergyIntolerance")) = 1
       /\ RequestsOf(onSubmitCalls[k].sub, "createEncounter")[1].body.class.code = EMER


----------------------------------------------------------------------------
(***************************************************************************)
(* SpecApi: a caller calls the methods of ApiService one at a time; the    *)
(* backend answers, or the fetch fails.                                    *)
(***************************************************************************)
\* a FHIR patient a backend can hold
PatientA == [resourceType |-> "Patient", id |-> "p1", gender |-> "female"]

\* JSON bodies: the envelope around a list, around one resource, without
\* data, and a resource with no envelope around it
JsonBodies ==
  {[success |-> TRUE, data |-> Array(<<PatientA, [resourceType |-> "Patient", id |-> "p2"]>>), count |-> 2, message |-> "ok"],
   [success |-> TRUE, data |-> PatientA, message |-> "ok"],
   [success |-> FALSE, message |-> "failed"],
   PatientA}

\* what one fetch can settle to: a rejection, or a response of any status
\* whose body is JSON, is text that is not JSON, or cannot be read
FetchOutcomes ==
  LET Statuses == {200, 201, 204, 404, 500}
  IN  {Threw(FetchError)}
      \cup {Returned(Response(st, Returned([stringified |-> b]), Returned(b))) :
              st \in Statuses, b \in JsonBodies}
      \cup {Returned(Response(st, Returned([plain |-> t]), Threw(BodyError))) :
              st \in Statuses, t \in {"", "Not Found"}}
      \cup {Returned(Response(st, Threw(FetchError), Threw(FetchError))) : st \in Statuses}

CallApi(method) ==
  /\ apiCall = None \/ apiResult # None
  /\ apiCall' = Some(method)
  /\ apiFetched' = None /\ apiResult' = None
  /\ UNCHANGED <<convVars, formVars, searchVars, submitVars, mounted, searchEnvVars,
                 viewVars, detailVars>>

FetchSettles(outcomes) ==
  /\ apiCall # None /\ apiResult = None
  /\ apiFetched' = Some(outcomes)
  /\ apiResult' = Some(ApiService(TheOne(apiCall), outcomes))
  /\ UNCHANGED apiCall
  /\ UNCHANGED <<convVars, formVars, searchVars, submitVars, mounted, searchEnvVars,
                 viewVars, detailVars>>

NextApi ==
  \/ \E method \in PassThroughMethods \cup UnwrappingMethods : CallApi(method)
  \/ \E first \in FetchOutcomes,
        second \in {Threw(FetchError),
                    Returned(Response(200, Returned([stringified |-> PatientA]),
                                      Returned(PatientA)))} :
       FetchSettles(<<first, second>>)

SpecApi == Constructed /\ [][NextApi]_vars


\* the response the first fetch of the settled call gave, if it gave one
Answered == apiResult # None /\ HasReturned(TheOne(apiFetched)[1])
TheResponse == TheOne(apiFetched)[1].returned
TheResult == TheOne(apiResult).settled

\* C13 as stated: a call makes one fetch; it rejects exactly when the fetch
\* rejects or the status is not 2xx; the error of a non-2xx response carries
\* the status and the body text; a 2xx response is returned.
C13_Original ==
  apiResult # None =>
    /\ TheOne(apiResult).fetches = 1
    /\ ~HasReturned(TheResult) <=> (~Answered \/ TheResponse.status \notin 200..299)
    /\ (Answered /\ TheResponse.status \notin 200..299) =>
         /\ HasReturned(TheResponse.text)
         /\ TheResult = Threw(HttpError(TheResponse.status, TheResponse.text.returned))

\* C13 (amended): a call makes one fetch; it rejects exactly when the fetch
\* rejects, the status is not 2xx, or the body of a 2xx response is not JSON
\* or cannot be read; the error of a non-2xx response whose body text can be
\* read carries the status and that text; a 2xx response with a JSON body is
\* returned by request with that body as data and the status, whatever the
\* body's success field.
C13_SingleAttemptRejectsOnFailure ==
  apiResult # None =>
    /\ TheOne(apiResult).fetches = 1
    /\ ~HasReturned(TheResult) <=>
         \/ ~Answered
         \/ TheResponse.status \notin 200..299
         \/ ~HasReturned(TheResponse.json)
    /\ (/\ Answered /\ TheResponse.status \notin 200..299
        /\ HasReturned(TheResponse.text)) =>
         TheResult = Threw(HttpError(TheResponse.status, TheResponse.text.returned))
    /\ (/\ Answered /\ TheResponse.status \in 200..299
        /\ HasReturned(TheResponse.json) /\ TheOne(apiCall) \in PassThroughMethods) =>
         TheResult = Returned([data |-> TheResponse.json.returned,
                               status |-> TheResponse.status])

\* a 201 whose envelope says success: false has been returned as a result
C13_Witness ==
  /\ apiCall = Some("createPatient") /\ Answered
  /\ TheResponse.status = 201
  /\ HasReturned(TheResponse.json) /\ TheResponse.json.returned.success = FALSE
  /\ HasReturned(TheResult) /\ TheResult.returned.status = 201

\* the envelope fields of body, as fields data and message
EnvelopeFields(body) ==
  (IF "data" \in DOMAIN body THEN [data |-> body.data] ELSE <<>>)
    @@ (IF "message" \in DOMAIN body THEN [message |-> body.message] ELSE <<>>)

\* C14: the result of every method, for a 2xx answer whose body is an envelope
\* {success, data, message}, is {data, status, message} with the envelope's
\* data, the response's status and the envelope's message.
C14_EveryMethodUnwraps ==
  (/\ Answered /\ HasReturned(TheResult)
   /\ "success" \in DOMAIN TheResponse.json.returned) =>
     TheResult.returned =
       [status |-> TheResponse.status] @@ EnvelopeFields(TheResponse.json.returned)


----------------------------------------------------------------------------
(***************************************************************************)
(* SpecViews: the user moves between the main page and the three list      *)
(* pages, reloads and creates patients, selects rows, adds, updates and    *)
(* deletes doctors and organizations; the backend answers, the mock load   *)
(* finishes.                                                               *)
(***************************************************************************)
\* what the fetch of a page's request can settle to: a rejection, or an
\* answer 201, 204 or 500 with any body
ViewOutcomes ==
  {o \in FetchOutcomes : HasReturned(o) => o.returned.status \in {201, 204, 500}}

\* a form that validateForm accepts
ValidPatient ==
  [f \in DOMAIN NewPatientForm |->
     CASE f = "email" -> <<"a", "@", "b", ".", "c", "o">>
       [] f \in {"phone", "cellular"} -> <<"0", "9", "9", " ", "1", "2", "3">>
       [] f = "height" -> <<"1", "7", "0">>
       [] f = "weight" -> <<"7", "0">>
       [] f = "dateOfBirth" -> <<"1", "9", "9", "0", "-", "0", "1", "-", "0", "1">>
       [] f = "gender" -> <<"m", "a", "l", "e">>
       [] f = "identificationType" -> <<"C", "I">>
       [] OTHER -> <<"A", "n", "a">>]

NextViews ==
  \/ \E route \in {"/", "/patients"} \cup MockPages : Navigate(route)
  \/ refreshPatients
  \/ \E i \in 1..Len(vmRequests), first \in ViewOutcomes :
       PatientsResponse(i, <<first, first>>)
  \/ handleAddPatient
  \/ handleInputChanges(ValidPatient)
  \/ handleCancelAdd
  \/ handleSubmitAdd
  \/ \E i \in 1..Len(vmRequests), first \in ViewOutcomes :
       CreateResponse(i, <<first, first>>)
  \/ MockLoaded
  \/ \E i \in 1..Len(vm.entities) : select(vm.entities[i])
  \/ clearSelection
  \/ \E now \in {"1700000000001", "1700000000002"} :
       Len(vm.entities) < MaxEntities /\ add([name |-> "New"], now)
  \/ \E i \in 1..Len(vm.entities) : update(vm.entities[i].id, [name |-> "Renamed"])
  \/ \E i \in 1..Len(vm.entities) : delete(vm.entities[i].id)

SpecViews == Constructed /\ [][NextViews]_vars


\* a step of the mounted patients page in which a getPatients request of the
\* page is answered
LoadSettles ==
  /\ page = "/patients" /\ page' = page
  /\ \E i \in 1..Len(vmRequests) :
       /\ vmRequests[i] = [kind |-> "getPatients", live |-> TRUE]
       /\ vmRequests' = RemoveAt(vmRequests, i)

\* a step in which the patients page sends a getPatients request
LoadStarts ==
  /\ page' = "/patients"
  /\ \/ page # page'
     \/ Len(vmRequests') > Len(vmRequests)
          /\ vmRequests'[Len(vmRequests')] = [kind |-> "getPatients", live |-> TRUE]
     \/ \E i \in 1..Len(vmRequests) :
          /\ vmRequests[i] = [kind |-> "createPatient", live |-> TRUE]
          /\ vmRequests' = [vmRequests EXCEPT ![i].kind = "getPatients"]

\* what ApiService.getPatients gave is a failure for loadPatients
LoadFailed(response) ==
  \/ ~HasReturned(response)
  \/ "data" \notin DOMAIN response.returned
  \/ ~isArray(response.returned.data)

\* C15: a step in which the patients page sends its getPatients request leaves
\* isLoading true and error null; a step in which that request is answered
\* leaves isLoading false and the promise of loadPatients fulfilled, and if
\* the request failed or its payload is no array it leaves the error's message
\* in error and the patients list as it was.
C15_LoadPatientsFlags ==
  [][/\ LoadStarts => (vm'.isLoading /\ vm'.error = None)
     /\ LoadSettles =>
          /\ ~vm'.isLoading
          /\ loadPromise' # None /\ TheOne(loadPromise').settled = "fulfilled"
          /\ LET response == TheOne(loadPromise').response
             IN  IF LoadFailed(response)
                 THEN /\ vm'.entities = vm.entities
                      /\ vm'.error = Some(IF HasReturned(response) THEN FormatError
                                          ELSE response.threw)
                 ELSE /\ vm'.error = vm.error
                      /\ Len(vm'.entities) = Len(response.returned.data.array)]_vars

\* a reload has been answered with an envelope whose data is one patient, not
\* a list: the list loaded before is still there, with the format error
C15_Witness ==
  /\ page = "/patients" /\ vmRequests = <<>>
  /\ Len(vm.entities) = 2
  /\ vm.error = Some(FormatError) /\ ~vm.isLoading
  /\ loadPromise # None /\ TheOne(loadPromise).settled = "fulfilled"

AllFive == {"select", "clear", "add", "update", "delete"}

DetailState == [encounters |-> <<>>, loadingEncounters |-> FALSE, encountersError |-> None]

\* resource.encounter?.reference
EncounterReference(resource) ==
  IF "encounter" \in DOMAIN resource /\ "reference" \in DOMAIN resource.encounter
  THEN Some(resource.encounter.reference) ELSE None

\* the view item the .map of each of the four lists makes of a resource
ViewItem(kind, resource) ==
  LET \* resource.code?.text || 'Unknown' (no fetched resource has a coding display)
      codeText ==
        IF "code" \in DOMAIN resource /\ "text" \in DOMAIN resource.code
           /\ resource.code.text # ""
        THEN resource.code.text ELSE "Unknown"
      \* resource[concept]?.coding?.[0]?.code || resource.id || 'Unknown'
      codeOrId(concept) ==
        IF /\ concept \in DOMAIN resource /\ "coding" \in DOMAIN resource[concept]
           /\ Len(resource[concept].coding) > 0
           /\ "code" \in DOMAIN resource[concept].coding[1]
           /\ resource[concept].coding[1].code # ""
        THEN resource[concept].coding[1].code
        ELSE IF "id" \in DOMAIN resource /\ resource.id # "" THEN resource.id ELSE "Unknown"
      \* resource.clinicalStatus?.coding?.[0]?.code
      clinicalStatusCode ==
        IF /\ "clinicalStatus" \in DOMAIN resource
           /\ "coding" \in DOMAIN resource.clinicalStatus
           /\ Len(resource.clinicalStatus.coding) > 0
           /\ "code" \in DOMAIN resource.clinicalStatus.coding[1]
        THEN Some(resource.clinicalStatus.coding[1].code) ELSE None
  IN  CASE kind = "observations" ->
             [loincCode |-> codeOrId("code"),
              method |-> IF "method" \in DOMAIN resource /\ "text" \in DOMAIN resource.method
                            /\ resource.method.text # ""
                         THEN resource.method.text ELSE "Unknown",
              unitOfMeasure |-> IF "valueQuantity" \in DOMAIN resource
                                   /\ "unit" \in DOMAIN resource.valueQuantity
                                   /\ resource.valueQuantity.unit # ""
                                THEN resource.valueQuantity.unit ELSE "Unknown",
              value |-> IF "valueString" \in DOMAIN resource /\ resource.valueString # ""
                        THEN resource.valueString ELSE "Unknown"]
        [] kind = "medications" ->
             [loincCode |-> codeOrId("medicationCodeableConcept"),
              method |-> "Unknown", unitOfMeasure |-> "Unknown",
              value |-> IF "dosageInstruction" \in DOMAIN resource
                           /\ Len(resource.dosageInstruction) > 0
                           /\ "text" \in DOMAIN resource.dosageInstruction[1]
                           /\ resource.dosageInstruction[1].text # ""
                        THEN resource.dosageInstruction[1].text ELSE "Unknown"]
        [] kind = "diagnoses" ->
             [description |-> codeText,
              diagnosisCode |-> codeOrId("code"),
              status |-> IF clinicalStatusCode \in {None, Some("")}
                         THEN "unknown" ELSE TheOne(clinicalStatusCode)]
        [] kind = "allergies" ->
             [description |-> codeText,
              active |-> clinicalStatusCode = Some("active")]

\* .filter(r => r.encounter?.reference === `Encounter/${encounterId}`).map(...)
ResourcesOf(kind, resources, encounterId) ==
  LET kept == SelectSeq(resources,
                        LAMBDA r : EncounterReference(r) = Some("Encounter/" \o encounterId))
  IN  [i \in 1..Len(kept) |-> ViewItem(kind, kept[i])]

\* loadEncountersWithResources without its finally block on the failure path
loadEncountersWithResources_NoFinally(prev, answers) ==
  IF HasReturned(answers)
     /\ \A i \in 1..Len(answers.returned.encounters) :
          HasReturned(fromFHIREncounter(answers.returned.encounters[i]))
  THEN [prev EXCEPT !.loadingEncounters = FALSE]
  ELSE [prev EXCEPT !.encountersError =
                       Some("Error al cargar los encuentros del paciente")]

\* the try block of loadEncountersWithResources on the five answers, with its
\* catch and finally; answers is what the five requests resolved to, or the
\* rejection of one of them
loadEncountersWithResources(prev, answers) ==
  LET failed == [prev EXCEPT !.loadingEncounters = FALSE,
                             !.encountersError =
                                Some("Error al cargar los encuentros del paciente")]
  IN  IF ~HasReturned(answers)
      THEN failed
      ELSE LET fetched == answers.returned
               converted == [i \in 1..Len(fetched.encounters) |->
                               fromFHIREncounter(fetched.encounters[i])]
           IN  IF \E i \in 1..Len(converted) : ~HasReturned(converted[i])
               THEN failed
               ELSE [prev EXCEPT
                       !.loadingEncounters = FALSE,
                       !.encounters =
                          [i \in 1..Len(converted) |->
                             [converted[i].returned EXCEPT
                                !.observations = ResourcesOf("observations",
                                   fetched.observations, converted[i].returned.id),
                                !.medications = ResourcesOf("medications",
                                   fetched.medications, converted[i].returned.id),
                                !.diagnoses = ResourcesOf("diagnoses",
                                   fetched.diagnoses, converted[i].returned.id),
                                !.allergies = ResourcesOf("allergies",
                                   fetched.allergies, converted[i].returned.id)]]]

DetailOthersUnchanged ==
  UNCHANGED <<convVars, formVars, searchVars, submitVars, mounted, searchEnvVars,
              apiVars, viewVars>>

\* a patient is opened: the view mounts and its effect starts the load
OpenPatientDetail ==
  /\ detailEncounters = None
  /\ detailEncounters' = Some([DetailState EXCEPT !.loadingEncounters = TRUE])
  /\ detailFetched' = None
  /\ DetailOthersUnchanged

\* the requests of the load are answered, or one of them is rejected
EncountersResponse(allAnswers) ==
  /\ detailEncounters # None /\ TheOne(detailEncounters).loadingEncounters
  /\ \E answers \in allAnswers :
       /\ detailFetched' = Some(answers)
       /\ detailEncounters' =
            Some(loadEncountersWithResources(TheOne(detailEncounters), answers))
  /\ DetailOthersUnchanged

\* onBack: the view is unmounted
ClosePatientDetail ==
  /\ detailEncounters # None
  /\ detailEncounters' = None /\ detailFetched' = None
  /\ DetailOthersUnchanged

(***************************************************************************)
(* SpecDetail: the patient detail view is opened, the backend answers its  *)
(* five list requests, the view is closed.                                 *)
(***************************************************************************)
\* what the five requests resolve to, or the rejection of one of them with
\* the request it came from. Encounters: two with ids, one without
\* id, one without class. The encounter field of a resource is absent, has no
\* reference, or refers to an encounter; the k-th resource of a list is told
\* apart by its id and text.
DetailAnswers ==
  LET FetchedEncounters ==
        {[resourceType |-> "Encounter", id |-> "e1", class |-> [code |-> AMB]],
         [resourceType |-> "Encounter", id |-> "e2", class |-> [code |-> EMER]],
         [resourceType |-> "Encounter", class |-> [code |-> AMB]],
         [resourceType |-> "Encounter", id |-> "e3"]}
      EncounterFields ==
        {None, Some([display |-> "visit"])}
        \cup {Some([reference |-> "Encounter/" \o id]) : id \in {"e1", "e2", "e9", "unknown"}}
      FetchedResource(k, encounter) ==
        LET name == <<"r1", "r2", "r3">>[k]
        IN  IF encounter = None
            THEN [id |-> name, code |-> [text |-> name]]
            ELSE [id |-> name, code |-> [text |-> name], encounter |-> TheOne(encounter)]
      FetchedLists(choices, maxLen) ==
        UNION {{[k \in 1..n |-> FetchedResource(k, fields[k])] :
                  fields \in [1..n -> choices]} : n \in 0..maxLen}
  IN  {Threw([message |-> "Failed to fetch", request |-> r]) :
         r \in {"encounters", "observations", "medications", "diagnoses", "allergies"}}
      \cup {Returned([encounters |-> es, observations |-> os, medications |-> ms,
                      diagnoses |-> ds, allergies |-> as]) :
              es \in UNION {[1..n -> FetchedEncounters] : n \in 0..MaxFetched},
              os \in FetchedLists(EncounterFields, MaxFetched),
              ms \in FetchedLists({None, Some([reference |-> "Encounter/e1"])}, 1),
              ds \in FetchedLists({None, Some([reference |-> "Encounter/unknown"])}, 1),
              as \in FetchedLists({Some([reference |-> "Encounter/e2"]),
                                   Some([reference |-> "Encounter/unknown"])}, 1)}

NextDetail ==
  \/ OpenPatientDetail
  \/ EncountersResponse(DetailAnswers)
  \/ ClosePatientDetail

SpecDetail == Constructed /\ [][NextDetail]_vars

\* the load has succeeded
DetailLoaded ==
  /\ detailEncounters # None /\ detailFetched # None
  /\ HasReturned(TheOne(detailFetched))
  /\ TheOne(detailEncounters).encountersError = None

\* the encounters, by position, under which a fetched resource is shown
ShownUnder(kind, resource) ==
  LET shown == TheOne(detailEncounters).encounters
  IN  {i \in 1..Len(shown) :
         \E j \in 1..Len(shown[i][kind]) : shown[i][kind][j] = ViewItem(kind, resource)}

\* C18: after a load, a fetched observation, medication request, condition or
\* allergy is shown under a loaded encounter e exactly when its
\* encounter.reference is Encounter/{e.id}; one with no reference, or with a
\* reference to no loaded encounter, is shown under none; and no resource is
\* shown under two encounters.
C18_ResourceUnderItsEncounterOnly ==
  DetailLoaded =>
    LET fetched == TheOne(detailFetched).returned
        shown == TheOne(detailEncounters).encounters
    IN  \A kind \in {"observations", "medications", "diagnoses", "allergies"} :
          \A k \in 1..Len(fetched[kind]) :
            LET resource == fetched[kind][k]
            IN  /\ \A i \in 1..Len(shown) :
                     i \in ShownUnder(kind, resource)
                       <=> EncounterReference(resource)
                             = Some("Encounter/" \o shown[i].id)
                /\ (\/ EncounterReference(resource) = None
                    \/ \A i \in 1..Len(shown) :
                         EncounterReference(resource) # Some("Encounter/" \o shown[i].id))
                     => ShownUnder(kind, resource) = {}
                /\ Cardinality(ShownUnder(kind, resource)) <= 1

\* C18, the part that holds: a resource is shown under exactly the loaded
\* encounters whose id its reference names
C18_ShownWhereReferenced ==
  DetailLoaded =>
    LET fetched == TheOne(detailFetched).returned
        shown == TheOne(detailEncounters).encounters
    IN  \A kind \in {"observations", "medications", "diagnoses", "allergies"} :
          \A k \in 1..Len(fetched[kind]) :
            ShownUnder(kind, fetched[kind][k])
              = {i \in 1..Len(shown) :
                   EncounterReference(fetched[kind][k])
                     = Some("Encounter/" \o shown[i].id)}

\* two encounters without id are loaded and an observation referring to
\* Encounter/unknown is shown under both
C18_ShownTwice ==
  /\ DetailLoaded
  /\ Len(TheOne(detailEncounters).encounters) = 2
  /\ \A i \in 1..2 : TheOne(detailEncounters).encounters[i].id = "unknown"
  /\ \E k \in 1..Len(TheOne(detailFetched).returned.observations) :
       ShownUnder("observations", TheOne(detailFetched).returned.observations[k]) = {1, 2}

\* C21: a step that ends the load of the patient detail view leaves
\* loadingEncounters false, and if one of the five requests was rejected it
\* leaves the generic message in encountersError and the encounters list as
\* it was.
C21_LoadFailureKeepsEncounters ==
  [][(detailEncounters # None /\ detailEncounters' # None) =>
       /\ ~TheOne(detailEncounters').loadingEncounters
       /\ ~HasReturned(TheOne(detailFetched')) =>
            /\ TheOne(detailEncounters').encountersError
                 = Some("Error al cargar los encuentros del paciente")
            /\ TheOne(detailEncounters').encounters
                 = TheOne(detailEncounters).encounters]_vars

\* the observations request of a load was rejected: the view shows the
\* message and no encounter, and is no longer loading
C21_Witness ==
  /\ detailFetched = Some(Threw([message |-> "Failed to fetch", request |-> "observations"]))
  /\ detailEncounters # None
  /\ TheOne(detailEncounters).encountersError # None
  /\ TheOne(detailEncounters).encounters = <<>>
  /\ ~TheOne(detailEncounters).loadingEncounters

----------------------------------------------------------------------------
(***************************************************************************)
(* SpecAddPatient: on the patients page the user opens the add-patient     *)
(* form, types into its fields, submits and cancels; the backend answers.  *)
(***************************************************************************)
\* the forms a user fills in: the empty one, one that validateForm accepts,
\* and that one with a single field emptied, blank or malformed
PatientForms ==
  {NewPatientForm, ValidPatient}
  \cup {[ValidPatient EXCEPT ![f] = <<>>] :
          f \in {"lastName", "email", "height", "dateOfBirth", "apartmentNumber"}}
  \cup {[ValidPatient EXCEPT ![f] = <<" ">>] : f \in {"firstName", "city"}}
  \cup {[ValidPatient EXCEPT ![f] = <<"a", "@", "b">>] : f \in {"email", "phone", "cellular"}}
  \cup {[ValidPatient EXCEPT ![f] = <<"0">>] : f \in {"height", "weight"}}
  \cup {[ValidPatient EXCEPT ![f] = <<"-", "1">>] : f \in {"height", "weight"}}

NextAddPatient ==
  \/ Navigate("/patients")
  \/ \E i \in 1..Len(vmRequests),
        first \in {Threw(FetchError),
                   Returned(Response(200, Returned([stringified |-> PatientA]),
                                     Returned([success |-> TRUE,
                                               data |-> Array(<<PatientA>>)])))} :
       PatientsResponse(i, <<first, first>>)
  \/ handleAddPatient
  \/ \E form \in PatientForms : handleInputChanges(form)
  \/ \E value \in {<<"a", "@", "b", ".", "c", "o">>, <<"a", " ", "@", "b", ".", "c">>} :
       handleInputChange("email", value)
  \/ handleCancelAdd
  \/ handleSubmitAdd
  \/ \E i \in 1..Len(vmRequests), first \in ViewOutcomes :
       CreateResponse(i, <<first, first>>)

SpecAddPatient == Constructed /\ [][NextAddPatient]_vars

\* the text has a character that is no space
NonBlank(s) == \E i \in 1..Len(s) : s[i] # " "

\* every required field is non-blank, e-mail, phone and cellular are well
\* formed, height and weight are positive numbers
FormAcceptable(newPatient) ==
  /\ \A f \in TrimRequired \cup PlainRequired : NonBlank(newPatient[f])
  /\ emailPattern(newPatient.email)
  /\ phonePattern(newPatient.phone) /\ phonePattern(newPatient.cellular)
  /\ \A f \in {"height", "weight"} :
       ~Number(newPatient[f]).nan /\ Number(newPatient[f]).value > 0

CreateRequests(requests) == {i \in 1..Len(requests) : requests[i].kind = "createPatient"}

\* C22: a step of the patients page that sends a createPatient request
\* starts from a form whose required fields are all non-blank, whose e-mail,
\* phone and cellular are well formed and whose height and weight are
\* positive numbers, so from any other form no step sends one; and a step in
\* which a createPatient request is answered resets the form and starts a
\* reload of the list only if the answer has status 200 or 201, and
\* otherwise leaves the form and the view-model as they were.
C22_CreateOnlyWhenValid ==
  [][/\ (page' = page /\ Cardinality(CreateRequests(vmRequests'))
                           > Cardinality(CreateRequests(vmRequests))) =>
          FormAcceptable(addPatient.newPatient)
     /\ (page' = page /\ Cardinality(CreateRequests(vmRequests'))
                           < Cardinality(CreateRequests(vmRequests))) =>
          IF createAnswer' \in {Some(Returned(200)), Some(Returned(201))}
          THEN /\ Len(vmRequests') = Len(vmRequests)
               /\ \E i \in CreateRequests(vmRequests) :
                    /\ vmRequests' = [vmRequests EXCEPT ![i].kind = "getPatients"]
                    /\ vmRequests[i].live =>
                         addPatient' = AddPatientState /\ vm'.isLoading
          ELSE /\ Len(vmRequests') = Len(vmRequests) - 1
               /\ addPatient' = addPatient /\ vm' = vm]_vars

\* a valid form was submitted and answered 201: the form is back to its
\* initial state, the list view shows, and the reload is in flight
C22_Witness ==
  /\ page = "/patients"
  /\ createAnswer = Some(Returned(201))
  /\ addPatient = AddPatientState
  /\ vmRequests = <<[kind |-> "getPatients", live |-> TRUE]>>
  /\ vm.isLoading

\* C23: on the doctors and organizations pages, an entity added with
\* addDoctor or addOrganization is still in the list after every step that
\* does not delete its id, also a step of the mock load's timer.
C23_AddedStaysUntilDeleted ==
  [][(page \in MockPages /\ page' = page) =>
       \A i \in 1..Len(vm.entities) :
         vm.entities[i].id \in {"1700000000001", "1700000000002"} =>
           \/ \E j \in 1..Len(vm'.entities) : vm'.entities[j].id = vm.entities[i].id
           \/ vm'.entities = WithoutId(vm.entities, vm.entities[i].id)]_vars

\* the getPatients requests of the mounted patients page that are unanswered
LoadsInFlight ==
  {i \in 1..Len(vmRequests) : vmRequests[i] = [kind |-> "getPatients", live |-> TRUE]}

\* C24: on the patients page isLoading is true while a getPatients request of
\* the page is unanswered, and when none is unanswered and the load that
\* settled last succeeded, error is null.
C24_LoadingWhileInFlight ==
  page = "/patients" =>
    /\ LoadsInFlight # {} => vm.isLoading
    /\ (LoadsInFlight = {} /\ loadPromise # None
          /\ ~LoadFailed(TheOne(loadPromise).response)) => vm.error = None

\* C25: when no submission of the encounter form is running, submitSuccess
\* and submitError are not both set.
C25_SuccessExcludesError ==
  pc = "idle" => ~(submitSuccess /\ submitError # None)

\* C26: while the form is mounted, the searching indicator of a code search
\* field is false whenever no debounce timer of the field is pending and no
\* search request of the field is unanswered.
C26_SearchingOnlyWhileSearchPending ==
  mounted =>
    \A f \in Fields :
      (/\ SearchTimersOf(timers, f) = {}
       /\ \A i \in 1..Len(searchRequests) : searchRequests[i].field # f)
        => ~isSearching[f]

\* a step leaves the list and its names as they are, appends an item and the
\* draft's name, or removes the item and the name at one index
NamesFollow(list, names, draftName) ==
  \/ list' = list /\ names' = names
  \/ /\ Len(list') = Len(list) + 1 /\ SubSeq(list', 1, Len(list)) = list
     /\ names' = Append(names, draftName)
  \/ \E i \in 1..Len(list) : list' = RemoveAt(list, i) /\ names' = RemoveAt(names, i)

\* C27: observationNames, medicationNames and diagnosisNames are as long as
\* their lists, and every step moves a list and its names together: an added
\* item comes with the draft's name at the same index, a removed item goes
\* with the name at its index, so the name at index i stays the one stored
\* with the item at index i.
C27_NamesAlignedWithItems ==
  /\ [](/\ Len(observationNames) = Len(observations)
        /\ Len(medicationNames) = Len(medications)
        /\ Len(diagnosisNames) = Len(diagnoses))
  /\ [][/\ NamesFollow(observations, observationNames, newObservationName)
        /\ NamesFollow(medications, medicationNames, newMedicationName)
        /\ NamesFollow(diagnoses, diagnosisNames, newDiagnosisName)]_vars

\* an observation whose code was typed and one whose code was picked from
\* the results are in the list, each with its name at its index
C27_Witness ==
  /\ Len(observations) = 2
  /\ observations[2].loincCode = LoincItem.ui
  /\ observationNames = << <<>>, <<"G", "l">> >>

\* name is empty or the short name of the search result of field f whose code
\* is code
NameOfCode(f, code, name) ==
  \/ name = <<>>
  \/ \E item \in ItemsOf(f) :
        CodeOf(f, item).code = code /\ CodeOf(f, item).shortName = name

\* C28: the name stored with an added observation, medication or diagnosis is
\* empty or the short name of the search result whose code is the item's code;
\* a code typed after a selection does not keep the selected result's name.
C28_StoredNameBelongsToCode ==
  /\ \A i \in 1..Len(observations) :
        NameOfCode("loinc", observations[i].loincCode, observationNames[i])
  /\ \A i \in 1..Len(medications) :
        NameOfCode("medication", medications[i].loincCode, medicationNames[i])
  /\ \A i \in 1..Len(diagnoses) :
        NameOfCode("diagnosis", diagnoses[i].diagnosisCode, diagnosisNames[i])

----------------------------------------------------------------------------
(***************************************************************************)
(* The three code search fields of EncounterForm around its unmount: a     *)
(* term is typed into any of the fields, time passes, timers run, requests *)
(* are answered, and the form is unmounted at any moment.                  *)
(***************************************************************************)
\* a term that is searched is typed into one of the three fields, once per
\* field
TypeCode ==
  /\ Len(searchRequests) < MaxInFlight
  /\ \/ lastTyped["loinc"] = None /\ handleLoincInputChange(SearchedTerm)
     \/ lastTyped["medication"] = None /\ handleMedicationInputChange(SearchedTerm)
     \/ lastTyped["diagnosis"] = None /\ handleDiagnosisInputChange(SearchedTerm)

NextUnmount ==
  \/ TypeCode
  \/ RunSearchTimer
  \/ AnswerSearch
  \/ Unmount
  \/ Tick

SpecUnmount == Constructed /\ [][NextUnmount]_vars

\* C29: once EncounterForm is unmounted, no debounce timer of the LOINC,
\* medication or diagnosis field runs its callback and no terminology search
\* request is sent.
C29_NothingRunsAfterUnmount ==
  [][~mounted =>
       /\ \A t \in timers : t.kind = "search" => \E u \in timers' : u.id = t.id
       /\ Len(searchRequests') <= Len(searchRequests)
       /\ sentSinceKey' = sentSinceKey]_vars

\* the part of C29 that the cleanup of the effect provides: no debounce
\* timer of the LOINC field is pending once the form is unmounted
C29_LoincTimerCleared ==
  ~mounted => SearchTimersOf(timers, "loinc") = {}

\* the ids a doctor or organization of SpecViews can have
EntityIds == {"1", "2", "1700000000001", "1700000000002"}

\* C30: after deleteDoctor(id) / deleteOrganization(id) no entity of the list
\* and no selection has that id; the entities with another id stay, in their
\* order, a selection with another id stays, and isLoading and error are as
\* they were.
C30_DeleteRemovesOnlyThatId ==
  [][\A id \in EntityIds :
       delete(id) =>
         LET Others(e) == e.id # id
         IN  /\ \A i \in 1..Len(vm'.entities) : vm'.entities[i].id # id
             /\ \A e \in vm'.selected : e.id # id
             /\ vm'.entities = SelectSeq(vm.entities, Others)
             /\ (\A e \in vm.selected : e.id # id) => vm'.selected = vm.selected
             /\ vm'.isLoading = vm.isLoading /\ vm'.error = vm.error]_vars

\* on the doctors page, after the mock load, the doctor with id 1 has been
\* deleted while the one with id 2 was selected: the list keeps the other
\* doctor, who is still selected
C30_Witness ==
  /\ page = "/doctors" /\ ~vmTimer /\ ~vm.isLoading
  /\ vm.entities = <<[id |-> "2", name |-> "Dra. Ana Martinez"]>>
  /\ vm.selected = Some([id |-> "2", name |-> "Dra. Ana Martinez"])
  /\ vmRequests = <<>>

=============================================================================
